---- MODULE Spec2Model ----
(***************************************************************************)
(* A model of mapiproxy: the single-threaded forwarding engine             *)
(* (src/proxy/mod.rs, src/proxy/forward.rs) and the MAPI framing analyzer  *)
(* (src/mapi/analyzer.rs).                                                 *)
(*                                                                         *)
(* The reactor is modelled at the granularity of its own steps: one poll,  *)
(* one dispatch of a readiness event, one accept, one Connecting::process, *)
(* one Copying::handle_one call.  The position inside Proxy::run is the    *)
(* variable pc; everything a step does (events emitted, registrations,     *)
(* removals from the slab) happens inside that step's action.  What the    *)
(* operating system answers (accept, connect, read, write, register) is    *)
(* chosen nondeterministically among the results the call can return.      *)
(***************************************************************************)
EXTENDS Integers, Sequences, FiniteSets, TLC

(***************************************************************************)
(* Bounds of the model                                                     *)
(***************************************************************************)

\* Capacity of a Copying buffer.  Stands for Copying::BUFSIZE (8192 in
\* forward.rs:310), scaled down so that a full buffer is reached.
BUFSIZE == 2

\* Number of slab slots the model lets the proxy occupy at once.
MaxSlots == 2

\* Number of readiness events one poll delivers (Events::with_capacity(20)).
MaxBatch == 2

\* Length of the byte stream fed to an analyzer, and of one chunk of it.
MaxStream == 4

MaxChunk == 3

\* What the environment does in a run: the connections it opens, the bytes
\* a client and a server send at most, the listen addresses and the
\* forward address the proxy was started with.
\* One connection at a time: every pair of transports, streams long enough
\* for partial reads and writes and a full buffer, and forward addresses
\* that resolve to several addresses or fail to resolve.
PumpScenarios ==
    {[conns |-> 1, up |-> 3, down |-> 0, listen |-> <<"unix">>, forward |-> "Unix"],
     [conns |-> 1, up |-> 3, down |-> 0, listen |-> <<"unix">>, forward |-> "Ip"],
     [conns |-> 1, up |-> 2, down |-> 0, listen |-> <<"tcp">>, forward |-> "Unix"],
     [conns |-> 1, up |-> 0, down |-> 2, listen |-> <<"tcp">>, forward |-> "Ip"],
     [conns |-> 1, up |-> 1, down |-> 1, listen |-> <<"tcp">>, forward |-> "Ip"],
     [conns |-> 1, up |-> 0, down |-> 0, listen |-> <<"tcp">>, forward |-> "Dns"],
     [conns |-> 1, up |-> 0, down |-> 0, listen |-> <<"tcp">>, forward |-> "PortOnly"]}

\* One connection of a TCP client to a server that sends a byte
WakeupScenarios ==
    {[conns |-> 1, up |-> 0, down |-> 1, listen |-> <<"tcp">>, forward |-> "Ip"]}

\* Several connections, at once and one after the other, with empty streams.
ProxyScenarios ==
    {[conns |-> 2, up |-> 0, down |-> 0, listen |-> <<"tcp">>, forward |-> "Ip"]}

\* One connection to a Unix server that sends a byte, from a TCP client and
\* from a Unix client that send a byte
SentinelScenarios ==
    {[conns |-> 1, up |-> 1, down |-> 1, listen |-> <<"tcp">>, forward |-> "Unix"],
     [conns |-> 1, up |-> 1, down |-> 1, listen |-> <<"unix">>, forward |-> "Unix"]}

\* The scenarios of the runs in which connections fail next to each other:
\* those of ProxyScenarios, and two Unix clients that send one byte
FailureScenarios ==
    ProxyScenarios
    \cup {[conns |-> 2, up |-> 1, down |-> 0, listen |-> <<"unix">>, forward |-> "Ip"]}

(***************************************************************************)
(* Program constants                                                       *)
(***************************************************************************)

\* ids: 10.. in Proxy::new
FirstId == 10

\* b'0', the sentinel a Unix client sends first
Zero == 48

\* Proxy::TRIGGER_SHUTDOWN_TOKEN is Token(usize::MAX); the model's integers
\* are 32 bits wide, so the largest of those stands for it.
TRIGGER_SHUTDOWN_TOKEN == 2147483647

\* the largest block length a header may announce (parse_header)
MaxBlock == 8190

\* u16::MAX
U16Max == 65535

(***************************************************************************)
(* Variables                                                               *)
(***************************************************************************)
VARIABLES
    pc,            \* position of the reactor thread inside Proxy::run
    batch,         \* tokens of the current poll batch not yet dispatched
    cur,           \* the handler in progress: [n, progress]
    listeners,     \* Proxy.listeners: the transport of each listener
    token_base,    \* Proxy.token_base
    forward_addr,  \* Proxy.forward_addr: the kind of MonetAddr
    forwarders,    \* Proxy.forwarders: slab entries, slot -> Forwarder | Vacant
    slab_len,      \* number of slab entries ever pushed
    slab_free,     \* the slab's free list, most recently removed key first
    ids,           \* Proxy.ids: the next ConnectionId
    poller,        \* token -> interest installed on the mio Poll
    wake,          \* the waker has been woken and the token is not yet seen
    log,           \* ConnectionId -> its events that carry no direction, in order
    dlog,          \* ConnectionId -> Direction -> its events of that direction
    wire,          \* ConnectionId -> what the peers send and receive, and
                   \* what the forward address resolved to for it
    scen,          \* the scenario of the run
    analyzer,      \* Accumulator.analyzer
    data,          \* the slice split_chunk works on: what is left of the chunk
    chunk,         \* the chunk (payload of one Data event) being split
    fed,           \* all bytes fed to the analyzer so far
    consumed,      \* the prefixes split_chunk has returned, concatenated
    returned,      \* what the last split_chunk call returned: Some or None
    calls,         \* the split_chunk calls made on the current chunk
    incomplete,    \* what check_incomplete answered, once it is called
    level,         \* Accumulator.level
    unix_stream,   \* the unix_client the Accumulator was made with
    buf,           \* Accumulator.buf
    frames,        \* the frames handed to dump_frame, in order
    direction,     \* Accumulator.direction
    peer_unix,     \* peer.is_unix() of the Incoming event of the connection
    conn_ids,      \* TcpTracker.conn_ids: the next ConnectionId
    streams,       \* TcpTracker.streams: Key -> StreamState
    emitted,       \* the events the tracker has handed to its handler
    handled,       \* the number of packets TcpTracker::handle was called with
    packet,        \* the packet of the last call of TcpTracker::handle
    seen,          \* Key -> the segments handled since the half was stored
    capture,       \* the flow the capture file holds
    channel,       \* the events in the sync_channel of run_proxy
    sender,        \* the reactor thread, which owns send_events
    receiver,      \* the thread of run_proxy, which owns receive_events
    sending,       \* the event of the send call in progress, or 0
    produced,      \* the number of events the reactor has emitted
    rendered       \* the events mapi_state.handle has returned Ok for

proxyVars == <<pc, batch, cur, listeners, token_base, forward_addr, forwarders,
               slab_len, slab_free, ids, poller, wake, log, dlog, wire, scen>>

analyzerVars == <<analyzer, data, chunk, fed, consumed, returned, calls, incomplete>>

accumulatorVars == <<level, unix_stream, buf, frames, direction, peer_unix>>

trackerVars == <<conn_ids, streams, emitted, handled, packet, seen, capture>>

channelVars == <<channel, sender, receiver, sending, produced, rendered>>

\* what the steps of one component leave alone
besidesProxy == <<analyzerVars, accumulatorVars, trackerVars, channelVars>>

besidesAnalyzer == <<proxyVars, accumulatorVars, trackerVars, channelVars>>

besidesAccumulator == <<proxyVars, trackerVars, channelVars>>

besidesTracker == <<proxyVars, analyzerVars, accumulatorVars, channelVars>>

besidesChannel == <<proxyVars, analyzerVars, accumulatorVars, trackerVars>>

vars == <<proxyVars, analyzerVars, accumulatorVars, trackerVars, channelVars>>

(***************************************************************************)
(* Sequences                                                               *)
(***************************************************************************)
Take(s, n) == SubSeq(s, 1, IF n < Len(s) THEN n ELSE Len(s))

Drop(s, n) == SubSeq(s, n + 1, Len(s))

Min(a, b) == IF a < b THEN a ELSE b

(***************************************************************************)
(* Events (src/proxy/event.rs).  Every event is a record of one shape; the *)
(* fields an event does not carry hold their default.                      *)
(***************************************************************************)
Ev(type, dir, payload, arg, imm, error) ==
    [type |-> type, dir |-> dir, data |-> payload, arg |-> arg, imm |-> imm,
     error |-> error]

EvIncoming == Ev("Incoming", "-", <<>>, 0, FALSE, "-")

EvConnecting(ix) == Ev("Connecting", "-", <<>>, ix, FALSE, "-")

EvConnectFailed(ix, immediately) ==
    Ev("ConnectFailed", "-", <<>>, ix, immediately, "-")

EvConnected == Ev("Connected", "-", <<>>, 0, FALSE, "-")

EvEnd == Ev("End", "-", <<>>, 0, FALSE, "-")

EvAborted(error) == Ev("Aborted", "-", <<>>, 0, FALSE, error)

EvData(dir, payload) == Ev("Data", dir, payload, 0, FALSE, "-")

EvShutdownRead(dir) == Ev("ShutdownRead", dir, <<>>, 0, FALSE, "-")

EvShutdownWrite(dir, discard) ==
    Ev("ShutdownWrite", dir, <<>>, discard, FALSE, "-")

(***************************************************************************)
(* Copying (src/proxy/forward.rs).  buffer holds buffer[0 .. free_space):  *)
(* the code reads no byte of the array beyond free_space.                  *)
(***************************************************************************)
\* Copying::new, but the '0' is queued for a Unix peer on the reading side
CopyingNewSwapped(fix_unix_read, fix_unix_write) ==
    [can_read |-> TRUE,
     can_write |-> TRUE,
     buffer |-> IF fix_unix_read THEN <<Zero>> ELSE <<>>,
     unsent_data |-> 0,
     free_space |-> IF fix_unix_read THEN 1 ELSE 0,
     fix_unix_read |-> fix_unix_write]

CopyingNew(fix_unix_read, fix_unix_write) ==
    [can_read |-> TRUE,
     can_write |-> TRUE,
     buffer |-> IF fix_unix_write THEN <<Zero>> ELSE <<>>,
     unsent_data |-> 0,
     free_space |-> IF fix_unix_write THEN 1 ELSE 0,
     fix_unix_read |-> fix_unix_read]

\* Copying::finished, but of the read side alone
FinishedReading(c) == ~c.can_read

\* Copying::finished (forward.rs:434-436)
Finished(c) == ~c.can_read /\ ~c.can_write

\* What one socket call answers: n bytes, WouldBlock, 0 (eof), an error, or
\* the call is not made.
IoN(n) == [kind |-> "n", n |-> n]

IoWouldBlock == [kind |-> "wb", n |-> 0]

IoEof == [kind |-> "eof", n |-> 0]

IoErr == [kind |-> "err", n |-> 0]

IoNone == [kind |-> "none", n |-> 0]

\* The outcome of a handle_one call, as it is built up by its steps.
PassStart(c) ==
    [status |-> "ok", error |-> "-", copy |-> c, progress |-> FALSE,
     events |-> <<>>, wrote |-> <<>>, took |-> 0, eof |-> FALSE,
     needW |-> FALSE, needR |-> FALSE, shutWr |-> FALSE, shutRd |-> FALSE]

\* forward.rs:338-340, the three assertions
PassAsserts(o) ==
    LET c == o.copy IN
    IF /\ c.unsent_data <= c.free_space
       /\ c.free_space <= BUFSIZE
       /\ (c.unsent_data = c.free_space \/ c.can_write)
    THEN o
    ELSE [o EXCEPT !.status = "panic"]

\* forward.rs:344-355
PassFixUnix(o) ==
    LET c == o.copy IN
    IF o.status # "ok" \/ ~(c.fix_unix_read /\ c.free_space > 0) THEN o
    ELSE IF c.unsent_data # 0 THEN [o EXCEPT !.status = "panic"]
    ELSE IF c.buffer[1] = Zero
    THEN [o EXCEPT !.copy.unsent_data = 1, !.copy.fix_unix_read = FALSE]
    ELSE [o EXCEPT !.status = "err", !.error = "no0"]

WriteResults(o) ==
    LET c == o.copy IN
    IF o.status # "ok" \/ c.unsent_data = c.free_space THEN {IoNone}
    ELSE {IoN(k) : k \in 1 .. (c.free_space - c.unsent_data)}
         \cup {IoWouldBlock, IoEof, IoErr}

\* PassWrite, but every write sends from the start of the buffer again
PassWriteFromStart(o, dir, w) ==
    LET c == o.copy IN
    IF o.status # "ok" \/ w.kind = "none" THEN o
    ELSE IF ~c.can_write THEN [o EXCEPT !.status = "panic"]
    ELSE IF w.kind = "n"
    THEN [o EXCEPT !.progress = TRUE,
                   !.wrote = SubSeq(c.buffer, 1, w.n),
                   !.copy.unsent_data = c.unsent_data + w.n]
    ELSE IF w.kind = "eof"
    THEN [o EXCEPT !.progress = TRUE,
                   !.events = Append(o.events,
                       EvShutdownWrite(dir, c.free_space - c.unsent_data)),
                   !.copy.unsent_data = c.free_space,
                   !.copy.can_write = FALSE,
                   !.shutWr = TRUE]
    ELSE IF w.kind = "wb"
    THEN [o EXCEPT !.needW = TRUE]
    ELSE [o EXCEPT !.status = "err", !.error = "writing"]

\* PassWrite, but ShutdownWrite counts every byte of the buffer as discarded
PassWriteDiscardsAll(o, dir, w) ==
    LET c == o.copy IN
    IF o.status # "ok" \/ w.kind = "none" THEN o
    ELSE IF ~c.can_write THEN [o EXCEPT !.status = "panic"]
    ELSE IF w.kind = "n"
    THEN [o EXCEPT !.progress = TRUE,
                   !.wrote = SubSeq(c.buffer, c.unsent_data + 1,
                                    c.unsent_data + w.n),
                   !.copy.unsent_data = c.unsent_data + w.n]
    ELSE IF w.kind = "eof"
    THEN [o EXCEPT !.progress = TRUE,
                   !.events = Append(o.events, EvShutdownWrite(dir, c.free_space)),
                   !.copy.unsent_data = c.free_space,
                   !.copy.can_write = FALSE,
                   !.shutWr = TRUE]
    ELSE IF w.kind = "wb"
    THEN [o EXCEPT !.needW = TRUE]
    ELSE [o EXCEPT !.status = "err", !.error = "writing"]

\* forward.rs:357-385
PassWrite(o, dir, w) ==
    LET c == o.copy IN
    IF o.status # "ok" \/ w.kind = "none" THEN o
    ELSE IF ~c.can_write THEN [o EXCEPT !.status = "panic"]
    ELSE IF w.kind = "n"
    THEN [o EXCEPT !.progress = TRUE,
                   !.wrote = SubSeq(c.buffer, c.unsent_data + 1,
                                    c.unsent_data + w.n),
                   !.copy.unsent_data = c.unsent_data + w.n]
    ELSE IF w.kind = "eof"
    THEN [o EXCEPT !.progress = TRUE,
                   !.events = Append(o.events,
                       EvShutdownWrite(dir, c.free_space - c.unsent_data)),
                   !.copy.unsent_data = c.free_space,
                   !.copy.can_write = FALSE,
                   !.shutWr = TRUE]
    ELSE IF w.kind = "wb"
    THEN [o EXCEPT !.needW = TRUE]
    ELSE [o EXCEPT !.status = "err", !.error = "writing"]

\* PassEmpty, but the write side is closed whether the buffer is empty or not
PassEmptyEarly(o, dir) ==
    LET c == o.copy
        closeW == c.can_write /\ ~c.can_read
    IN
    IF o.status # "ok" THEN o
    ELSE IF c.unsent_data # c.free_space
    THEN [o EXCEPT !.copy.can_write = IF closeW THEN FALSE ELSE c.can_write,
                   !.shutWr = o.shutWr \/ closeW]
    ELSE LET closeR == c.can_read /\ ~c.can_write
         IN [o EXCEPT !.copy.unsent_data = 0,
                      !.copy.free_space = 0,
                      !.copy.buffer = <<>>,
                      !.copy.can_write = IF closeW THEN FALSE ELSE c.can_write,
                      !.copy.can_read = IF closeR THEN FALSE ELSE c.can_read,
                      !.shutWr = o.shutWr \/ closeW,
                      !.shutRd = closeR,
                      !.events = IF closeR
                                 THEN Append(o.events, EvShutdownRead(dir))
                                 ELSE o.events]

\* PassEmpty, but the indices of the empty buffer stay where they are
PassEmptyUnreset(o, dir) ==
    LET c == o.copy IN
    IF o.status # "ok" \/ c.unsent_data # c.free_space THEN o
    ELSE LET closeW == c.can_write /\ ~c.can_read
             closeR == c.can_read /\ ~c.can_write
         IN [o EXCEPT !.copy.can_write = IF closeW THEN FALSE ELSE c.can_write,
                      !.copy.can_read = IF closeR THEN FALSE ELSE c.can_read,
                      !.shutWr = o.shutWr \/ closeW,
                      !.shutRd = closeR,
                      !.events = IF closeR
                                 THEN Append(o.events, EvShutdownRead(dir))
                                 ELSE o.events]

\* PassEmpty, but the read half stays open when the write half has closed
PassEmptyKeepsReading(o, dir) ==
    LET c == o.copy IN
    IF o.status # "ok" \/ c.unsent_data # c.free_space THEN o
    ELSE LET closeW == c.can_write /\ ~c.can_read
         IN [o EXCEPT !.copy.unsent_data = 0,
                      !.copy.free_space = 0,
                      !.copy.buffer = <<>>,
                      !.copy.can_write = IF closeW THEN FALSE ELSE c.can_write,
                      !.shutWr = o.shutWr \/ closeW]

\* forward.rs:387-400
PassEmpty(o, dir) ==
    LET c == o.copy IN
    IF o.status # "ok" \/ c.unsent_data # c.free_space THEN o
    ELSE LET closeW == c.can_write /\ ~c.can_read
             closeR == c.can_read /\ ~c.can_write
         IN [o EXCEPT !.copy.unsent_data = 0,
                      !.copy.free_space = 0,
                      !.copy.buffer = <<>>,
                      !.copy.can_write = IF closeW THEN FALSE ELSE c.can_write,
                      !.copy.can_read = IF closeR THEN FALSE ELSE c.can_read,
                      !.shutWr = o.shutWr \/ closeW,
                      !.shutRd = closeR,
                      !.events = IF closeR
                                 THEN Append(o.events, EvShutdownRead(dir))
                                 ELSE o.events]

\* ReadResults, but of a read that is attempted whenever the buffer has room
ReadResultsUnguarded(o, avail) ==
    LET c == o.copy IN
    IF o.status # "ok" \/ ~(c.free_space < BUFSIZE)
    THEN {IoNone}
    ELSE {IoN(k) : k \in 1 .. Min(Len(avail), BUFSIZE - c.free_space)}
         \cup {IoWouldBlock, IoEof, IoErr}

ReadResults(o, avail) ==
    LET c == o.copy IN
    IF o.status # "ok" \/ ~(c.can_read /\ c.can_write /\ c.free_space < BUFSIZE)
    THEN {IoNone}
    ELSE {IoN(k) : k \in 1 .. Min(Len(avail), BUFSIZE - c.free_space)}
         \cup {IoWouldBlock, IoEof, IoErr}

\* PassRead, but a read that answers WouldBlock asks for nothing
PassReadAsksNothing(o, dir, r, avail) ==
    LET c == o.copy IN
    IF o.status # "ok" \/ r.kind = "none" THEN o
    ELSE IF r.kind = "n"
    THEN [o EXCEPT !.events = Append(o.events, EvData(dir, Take(avail, r.n))),
                   !.progress = TRUE,
                   !.took = r.n,
                   !.copy.buffer = c.buffer \o Take(avail, r.n),
                   !.copy.free_space = c.free_space + r.n]
    ELSE IF r.kind = "eof"
    THEN [o EXCEPT !.progress = TRUE,
                   !.events = Append(o.events, EvShutdownRead(dir)),
                   !.eof = TRUE,
                   !.copy.can_read = FALSE,
                   !.shutRd = TRUE]
    ELSE IF r.kind = "wb"
    THEN o
    ELSE [o EXCEPT !.status = "err", !.error = "reading"]

\* forward.rs:402-429
PassRead(o, dir, r, avail) ==
    LET c == o.copy IN
    IF o.status # "ok" \/ r.kind = "none" THEN o
    ELSE IF r.kind = "n"
    THEN [o EXCEPT !.events = Append(o.events, EvData(dir, Take(avail, r.n))),
                   !.progress = TRUE,
                   !.took = r.n,
                   !.copy.buffer = c.buffer \o Take(avail, r.n),
                   !.copy.free_space = c.free_space + r.n]
    ELSE IF r.kind = "eof"
    THEN [o EXCEPT !.progress = TRUE,
                   !.events = Append(o.events, EvShutdownRead(dir)),
                   !.eof = TRUE,
                   !.copy.can_read = FALSE,
                   !.shutRd = TRUE]
    ELSE IF r.kind = "wb"
    THEN [o EXCEPT !.needR = TRUE]
    ELSE [o EXCEPT !.status = "err", !.error = "reading"]

\* Copying::handle_one: the set of outcomes of one pass over Copying c in
\* direction dir, when the source socket has the bytes avail to read.
HandleOne(c, dir, avail) ==
    LET fixed == PassFixUnix(PassAsserts(PassStart(c)))
        mids == {PassEmpty(PassWrite(fixed, dir, w), dir) : w \in WriteResults(fixed)}
    IN UNION {{PassRead(m, dir, r, avail) : r \in ReadResults(m, avail)} : m \in mids}


(***************************************************************************)
(* Registered (src/proxy/forward.rs).  An Option<Interest> is the set of   *)
(* its interests, None being the empty set.                                *)
(***************************************************************************)
\* call is the registry call that update_registration made last
RegisteredNew(name, token, unix) ==
    [name |-> name, unix |-> unix, token |-> token,
     needed |-> {}, registered |-> {}, call |-> "none"]

combine_interests(left, right) == left \cup right

\* Registered::need
Need(r, interests) == [r EXCEPT !.needed = combine_interests(r.needed, interests)]

\* Registered::clear
Clear(r) == [r EXCEPT !.needed = {}]

\* Registered::update_registration calls the registry unless nothing changes
RegistryCall(r) == r.registered # r.needed

\* update_registration that calls reregister for every registered source
update_registration_always(r) ==
    [r EXCEPT !.registered = r.needed,
              !.call = CASE r.registered = {} /\ r.needed = {} -> "none"
                         [] r.registered # {} /\ r.needed = {} -> "deregister"
                         [] r.registered = {} /\ r.needed # {} -> "register"
                         [] OTHER -> "reregister"]

\* Registered::update_registration when the registry call succeeds
update_registration(r) ==
    [r EXCEPT !.registered = r.needed,
              !.call = CASE r.registered = {} /\ r.needed = {} -> "none"
                         [] r.registered # {} /\ r.needed = {} -> "deregister"
                         [] r.registered = {} /\ r.needed # {} -> "register"
                         [] OTHER -> IF r.registered # r.needed
                                     THEN "reregister" ELSE "none"]

\* what the poller has installed for a source after update_registration
Installed(old, r) ==
    CASE r.call = "none" -> old
      [] r.call = "deregister" -> {}
      [] OTHER -> r.needed

(***************************************************************************)
(* Addresses (src/proxy/network.rs).  An Addr is [ix, unix]: its place in  *)
(* the resolved list and its transport.                                    *)
(***************************************************************************)
UnixAddr(ix) == [ix |-> ix, unix |-> TRUE]

TcpAddr(ix) == [ix |-> ix, unix |-> FALSE]

ResolveOk(addrs) == [ok |-> TRUE, addrs |-> addrs]

ResolveErr == [ok |-> FALSE, addrs |-> <<>>]

\* MonetAddr::resolve: the Unix address first, then what the name lookup
\* gives, which may fail.
Resolve(addr) ==
    CASE addr = "Unix" -> {ResolveOk(<<UnixAddr(1)>>)}
      [] addr = "Ip" -> {ResolveOk(<<TcpAddr(1)>>)}
      [] addr = "Dns" -> {ResolveErr, ResolveOk(<<>>), ResolveOk(<<TcpAddr(1)>>),
                          ResolveOk(<<TcpAddr(1), TcpAddr(2)>>)}
      [] addr = "PortOnly" -> {ResolveErr, ResolveOk(<<UnixAddr(1), TcpAddr(2)>>)}

RECURSIVE ImmediateFailures(_, _)
ImmediateFailures(addrs, k) ==
    IF k = 0 THEN <<>>
    ELSE ImmediateFailures(addrs, k - 1)
         \o <<EvConnecting(addrs[k].ix), EvConnectFailed(addrs[k].ix, TRUE)>>

\* ConnectAddrs, but the address that connects is not announced
ConnectAddrsUnannounced(addrs, k) ==
    IF k <= Len(addrs)
    THEN [found |-> TRUE,
          events |-> ImmediateFailures(addrs, k - 1),
          addr |-> addrs[k],
          rest |-> Drop(addrs, k)]
    ELSE [found |-> FALSE,
          events |-> ImmediateFailures(addrs, Len(addrs)),
          addr |-> TcpAddr(0),
          rest |-> <<>>]

\* ConnectAddrs, but the address that connects stays in the list
ConnectAddrsRetrying(addrs, k) ==
    IF k <= Len(addrs)
    THEN [found |-> TRUE,
          events |-> ImmediateFailures(addrs, k - 1) \o <<EvConnecting(addrs[k].ix)>>,
          addr |-> addrs[k],
          rest |-> Drop(addrs, k - 1)]
    ELSE [found |-> FALSE,
          events |-> ImmediateFailures(addrs, Len(addrs)),
          addr |-> TcpAddr(0),
          rest |-> <<>>]

\* ConnectAddrs, but the failures of connect() are reported as not immediate
ConnectAddrsDelayed(addrs, k) ==
    LET failed == IF k <= Len(addrs) THEN k - 1 ELSE Len(addrs)
        events == [i \in 1 .. 2 * failed |->
                     IF i % 2 = 1 THEN EvConnecting(addrs[(i + 1) \div 2].ix)
                     ELSE EvConnectFailed(addrs[i \div 2].ix, FALSE)]
    IN IF k <= Len(addrs)
       THEN [found |-> TRUE,
             events |-> events \o <<EvConnecting(addrs[k].ix)>>,
             addr |-> addrs[k],
             rest |-> Drop(addrs, k)]
       ELSE [found |-> FALSE,
             events |-> events,
             addr |-> TcpAddr(0),
             rest |-> <<>>]

\* Connecting::connect_addrs when the k-th of addrs is the first whose
\* connect() and registration succeed (k = Len(addrs) + 1: none does).
ConnectAddrs(addrs, k) ==
    IF k <= Len(addrs)
    THEN [found |-> TRUE,
          events |-> ImmediateFailures(addrs, k - 1) \o <<EvConnecting(addrs[k].ix)>>,
          addr |-> addrs[k],
          rest |-> Drop(addrs, k)]
    ELSE [found |-> FALSE,
          events |-> ImmediateFailures(addrs, Len(addrs)),
          addr |-> TcpAddr(0),
          rest |-> <<>>]

ConnectOutcomes(addrs) == {ConnectAddrs(addrs, k) : k \in 1 .. Len(addrs) + 1}

(***************************************************************************)
(* The slab of forwarders and the poller                                   *)
(***************************************************************************)
Vacant ==
    [state |-> "Vacant", id |-> 0,
     client |-> RegisteredNew(0, 0, FALSE), server |-> RegisteredNew(0, 0, FALSE),
     addrs |-> <<>>,
     upstream |-> CopyingNew(FALSE, FALSE), downstream |-> CopyingNew(FALSE, FALSE)]

Slots == 0 .. MaxSlots - 1

\* Slab::vacant_entry().key(): the key removed last, or a new one
VacantKey == IF slab_free # <<>> THEN Head(slab_free) ELSE slab_len

ClientToken(n) == token_base + 2 * n

\* a server token that is the client token of the next slot
ServerTokenNextSlot(n) == token_base + 2 * n + 2

ServerToken(n) == token_base + 2 * n + 1

\* the slot a forwarder token belongs to (run, mod.rs:172)
SlotOf(token) == (token - token_base) \div 2

Emit(l, id, events) == [l EXCEPT ![id] = @ \o events]

\* Dropping a forwarder closes both sockets, which takes them off the poller.
Dropped(p, n) == [p EXCEPT ![ClientToken(n)] = {}, ![ServerToken(n)] = {}]

\* Remove, but the forwarder stays in its slot and on the poller
RemoveKeepsForwarder(n) ==
    /\ UNCHANGED <<forwarders, slab_free, poller, slab_len>>

\* Remove, but of every forwarder of the slab
RemoveEvery(n) ==
    /\ forwarders' = [m \in Slots |-> Vacant]
    /\ slab_free' = <<n>> \o slab_free
    /\ poller' = [t \in DOMAIN poller |-> IF t < token_base THEN poller[t] ELSE {}]
    /\ UNCHANGED slab_len

\* The removal at the end of handle_forward_event (mod.rs:262-264)
Remove(n) ==
    /\ forwarders' = [forwarders EXCEPT ![n] = Vacant]
    /\ slab_free' = <<n>> \o slab_free
    /\ poller' = Dropped(poller, n)
    /\ UNCHANGED slab_len

(***************************************************************************)
(* The environment: what the peers send                                    *)
(***************************************************************************)
ClientStreams(unix) ==
    IF unix THEN {Take(<<Zero, 1, 2>>, scen.up), Take(<<9, 1, 2>>, scen.up)}
    ELSE {Take(<<1, 2, 3>>, scen.up)}

ServerStream == Take(<<5, 6, 7>>, scen.down)

NoWire ==
    [c2p |-> <<>>, p2s |-> <<>>, s2p |-> <<>>, p2c |-> <<>>, shut |-> {},
     cunix |-> FALSE, sunix |-> FALSE, resolved |-> <<>>]

NoEvents == [Upstream |-> <<>>, Downstream |-> <<>>]

EmitDir(l, id, dir, events) == [l EXCEPT ![id][dir] = @ \o events]

\* Sequences of up to MaxBatch distinct tokens of S
Batches(S) ==
    {b \in UNION {[1 .. k -> S] : k \in 1 .. MaxBatch} :
        \A i, j \in DOMAIN b : i # j => b[i] # b[j]}

\* Ready, but of a poller on which the waker is not registered
ReadyUnwoken == {t \in DOMAIN poller : poller[t] # {}}

Ready ==
    {t \in DOMAIN poller : poller[t] # {}}
    \cup (IF wake = "pending" THEN {TRIGGER_SHUTDOWN_TOKEN} ELSE {})


(***************************************************************************)
(* Init: the state after Proxy::new (mod.rs:92-134): the listeners are     *)
(* bound and registered for READABLE, token_base is their number, the slab *)
(* is empty and the first id is 10.                                        *)
(***************************************************************************)
ProxyInit(scenarios) ==
    /\ pc = "poll"
    /\ batch = <<>>
    /\ cur = [n |-> 0, progress |-> FALSE]
    /\ scen \in scenarios
    /\ listeners = scen.listen
    /\ token_base = Len(listeners)
    /\ forward_addr = scen.forward
    /\ forwarders = [n \in Slots |-> Vacant]
    /\ slab_len = 0
    /\ slab_free = <<>>
    /\ ids = FirstId
    /\ poller = [t \in 0 .. (token_base + 2 * MaxSlots - 1) |->
                    IF t < token_base THEN {"R"} ELSE {}]
    /\ wake = "idle"
    /\ log = [i \in FirstId .. (FirstId + scen.conns - 1) |-> <<>>]
    /\ dlog = [i \in FirstId .. (FirstId + scen.conns - 1) |-> NoEvents]
    /\ wire = [i \in FirstId .. (FirstId + scen.conns - 1) |-> NoWire]

(***************************************************************************)
(* The shutdown trigger (mod.rs:179-186): waker.wake().  It runs on        *)
(* another thread at any moment; the reactor sees it in its next poll and  *)
(* nowhere else, so it is placed right before that poll.                   *)
(***************************************************************************)
Trigger ==
    /\ wake = "idle"
    /\ pc = "poll"
    /\ wake' = "pending"
    /\ UNCHANGED <<pc, batch, cur, listeners, token_base, forward_addr,
                   forwarders, slab_len, slab_free, ids, poller, log, dlog, wire, scen, besidesProxy>>

(***************************************************************************)
(* Proxy::run (mod.rs:157-176)                                             *)
(***************************************************************************)
\* poll returns a batch of events of registered sources
Poll ==
    /\ pc = "poll"
    /\ \E b \in Batches(Ready) : batch' = b
    /\ pc' = "dispatch"
    /\ UNCHANGED <<cur, listeners, token_base, forward_addr, forwarders,
                   slab_len, slab_free, ids, poller, wake, log, dlog, wire, scen, besidesProxy>>

\* poll fails with an error other than Interrupted: run returns Err
PollError ==
    /\ pc = "poll"
    /\ pc' = "failed"
    /\ UNCHANGED <<batch, cur, listeners, token_base, forward_addr, forwarders,
                   slab_len, slab_free, ids, poller, wake, log, dlog, wire, scen, besidesProxy>>

\* the batch is exhausted: back to poll
BatchDone ==
    /\ pc = "dispatch"
    /\ batch = <<>>
    /\ pc' = "poll"
    /\ UNCHANGED <<batch, cur, listeners, token_base, forward_addr, forwarders,
                   slab_len, slab_free, ids, poller, wake, log, dlog, wire, scen, besidesProxy>>

\* token == TRIGGER_SHUTDOWN_TOKEN: return Ok(())
RunShutdown ==
    /\ pc = "dispatch"
    /\ batch # <<>>
    /\ Head(batch) = TRIGGER_SHUTDOWN_TOKEN
    /\ pc' = "stopped"
    /\ wake' = "seen"
    /\ batch' = Tail(batch)
    /\ UNCHANGED <<cur, listeners, token_base, forward_addr, forwarders,
                   slab_len, slab_free, ids, poller, log, dlog, wire, scen, besidesProxy>>

\* token.0 < token_base: handle_listener_event(token.0)
RunListener ==
    /\ pc = "dispatch"
    /\ batch # <<>>
    /\ Head(batch) # TRIGGER_SHUTDOWN_TOKEN
    /\ Head(batch) < token_base
    /\ pc' = "accept"
    /\ cur' = [n |-> Head(batch), progress |-> FALSE]
    /\ batch' = Tail(batch)
    /\ UNCHANGED <<listeners, token_base, forward_addr, forwarders,
                   slab_len, slab_free, ids, poller, wake, log, dlog, wire, scen, besidesProxy>>

\* otherwise: handle_forward_event(ev, (token.0 - token_base) / 2), up to
\* the call of Forwarder::handle_event (mod.rs:234-247, forward.rs:62-72)
RunForward ==
    /\ pc = "dispatch"
    /\ batch # <<>>
    /\ Head(batch) # TRIGGER_SHUTDOWN_TOKEN
    /\ Head(batch) >= token_base
    /\ LET n == SlotOf(Head(batch)) IN
         /\ pc' = CASE forwarders[n].state = "Vacant" -> "dispatch"
                    [] forwarders[n].state = "Connecting" -> "connecting"
                    [] forwarders[n].state = "Running" -> "pump_down"
         /\ cur' = [n |-> n, progress |-> FALSE]
    /\ batch' = Tail(batch)
    /\ UNCHANGED <<listeners, token_base, forward_addr, forwarders,
                   slab_len, slab_free, ids, poller, wake, log, dlog, wire, scen, besidesProxy>>


(***************************************************************************)
(* Proxy::handle_listener_event (mod.rs:188-207): one turn of its loop.    *)
(***************************************************************************)
\* accept() answers WouldBlock: return Ok(())
AcceptWouldBlock ==
    /\ pc = "accept"
    /\ pc' = "dispatch"
    /\ UNCHANGED <<batch, cur, listeners, token_base, forward_addr, forwarders,
                   slab_len, slab_free, ids, poller, wake, log, dlog, wire, scen, besidesProxy>>

\* accept() fails: run returns Err(Error::Accept)
AcceptError ==
    /\ pc = "accept"
    /\ pc' = "failed"
    /\ UNCHANGED <<batch, cur, listeners, token_base, forward_addr, forwarders,
                   slab_len, slab_free, ids, poller, wake, log, dlog, wire, scen, besidesProxy>>

\* Forwarder::new on slab key n for connection id (forward.rs:27-48,
\* Connecting::new forward.rs:91-129), and what start_forwarder does with
\* its result (mod.rs:209-232).  r is what resolve() answers, c what
\* connect_addrs does.
StartForwarder(id, n, cunix, r, c) ==
    IF ~r.ok \/ r.addrs = <<>>
    THEN /\ log' = Emit(log, id, <<EvIncoming, EvConnectFailed(0, TRUE),
                                   EvAborted("Connect")>>)
         /\ UNCHANGED <<forwarders, slab_len, slab_free, poller>>
    ELSE IF ~c.found
    THEN /\ log' = Emit(log, id, <<EvIncoming>> \o c.events
                                 \o <<EvAborted("Connect")>>)
         /\ UNCHANGED <<forwarders, slab_len, slab_free, poller>>
    ELSE /\ log' = Emit(log, id, <<EvIncoming>> \o c.events)
         /\ forwarders' = [forwarders EXCEPT ![n] =
                [state |-> "Connecting", id |-> id,
                 client |-> RegisteredNew(0, ClientToken(n), cunix),
                 server |-> [RegisteredNew(c.addr.ix, ServerToken(n), c.addr.unix)
                                EXCEPT !.needed = {"W"}, !.registered = {"W"}],
                 addrs |-> c.rest,
                 upstream |-> Vacant.upstream,
                 downstream |-> Vacant.downstream]]
         /\ slab_free' = IF slab_free # <<>> THEN Tail(slab_free) ELSE slab_free
         /\ slab_len' = IF slab_free # <<>> THEN slab_len ELSE slab_len + 1
         /\ poller' = [poller EXCEPT ![ServerToken(n)] = {"W"}]

\* a range of ids whose next() does not advance
ids_next_stuck(range) == [id |-> range, ids |-> range]

\* self.ids.next().unwrap() on the RangeFrom that starts at range: the id
\* it yields and the range left
ids_next(range) == [id |-> range, ids |-> range + 1]

\* accept() answers a connection: a fresh id, Incoming, start_forwarder
AcceptOk ==
    /\ pc = "accept"
    /\ ids - FirstId < scen.conns
    /\ VacantKey < MaxSlots
    /\ LET id == ids_next(ids).id
           n == VacantKey
           cunix == listeners[cur.n + 1] = "unix"
       IN \E cs \in ClientStreams(cunix), r \in Resolve(forward_addr) :
            \E c \in ConnectOutcomes(r.addrs) :
               /\ StartForwarder(id, n, cunix, r, c)
               /\ wire' = [wire EXCEPT ![id] =
                              [NoWire EXCEPT !.c2p = cs, !.cunix = cunix,
                                             !.resolved = r.addrs]]
    /\ ids' = ids_next(ids).ids
    /\ UNCHANGED <<pc, batch, cur, listeners, token_base, forward_addr, wake, dlog, scen, besidesProxy>>

(***************************************************************************)
(* Connecting::process (forward.rs:164-214) with the end of                *)
(* handle_forward_event (mod.rs:247-264).                                  *)
(***************************************************************************)
\* established() answers Ok(None): still waiting
ConnectingWait ==
    /\ pc = "connecting"
    /\ pc' = "dispatch"
    /\ UNCHANGED <<batch, cur, listeners, token_base, forward_addr, forwarders,
                   slab_len, slab_free, ids, poller, wake, log, dlog, wire, scen, besidesProxy>>

\* established() answers Ok(Some(peer)): Connected, Running::from, and on
\* to Running::process
ConnectingEstablished ==
    /\ pc = "connecting"
    /\ LET n == cur.n
           f == forwarders[n]
       IN \E nodelay \in (IF f.client.unix /\ f.server.unix THEN {TRUE} ELSE BOOLEAN) :
            IF nodelay
            THEN /\ forwarders' = [forwarders EXCEPT ![n] =
                        [f EXCEPT !.state = "Running",
                                  !.addrs = <<>>,
                                  !.upstream = CopyingNew(f.client.unix, f.server.unix),
                                  !.downstream = CopyingNew(FALSE, FALSE)]]
                 /\ log' = Emit(log, f.id, <<EvConnected>>)
                 /\ wire' = [wire EXCEPT ![f.id].s2p = ServerStream,
                                         ![f.id].sunix = f.server.unix]
                 /\ pc' = "pump_down"
                 /\ UNCHANGED <<slab_len, slab_free, poller>>
            ELSE /\ log' = Emit(log, f.id, <<EvConnected, EvAborted("nodelay")>>)
                 /\ Remove(n)
                 /\ pc' = "dispatch"
                 /\ UNCHANGED wire
    /\ UNCHANGED <<batch, cur, listeners, token_base, forward_addr, ids, wake, dlog, scen, besidesProxy>>

\* established() answers an error: ConnectFailed, then the next addresses
ConnectingFailed ==
    /\ pc = "connecting"
    /\ LET n == cur.n
           f == forwarders[n]
       IN \E c \in ConnectOutcomes(f.addrs) :
            IF c.found
            THEN /\ forwarders' = [forwarders EXCEPT ![n] =
                        [f EXCEPT !.server =
                                    [RegisteredNew(c.addr.ix, ServerToken(n), c.addr.unix)
                                       EXCEPT !.needed = {"W"}, !.registered = {"W"}],
                                  !.addrs = c.rest]]
                 /\ poller' = [poller EXCEPT ![ServerToken(n)] = {"W"}]
                 /\ log' = Emit(log, f.id, <<EvConnectFailed(f.server.name, FALSE)>>
                                           \o c.events)
                 /\ UNCHANGED <<slab_len, slab_free>>
            ELSE /\ log' = Emit(log, f.id, <<EvConnectFailed(f.server.name, FALSE)>>
                                           \o c.events \o <<EvAborted("Connect")>>)
                 /\ Remove(n)
    /\ pc' = "dispatch"
    /\ UNCHANGED <<batch, cur, listeners, token_base, forward_addr, ids, wake,
                   dlog, wire, scen, besidesProxy>>


(***************************************************************************)
(* Running::process (forward.rs:254-296) with the end of                   *)
(* handle_forward_event (mod.rs:247-264).  Each handle_one call of the     *)
(* while loop is a step; the step that ends the loop also updates the      *)
(* registrations, decides finished() and removes the forwarder.            *)
(***************************************************************************)
SetOf(flag, x) == IF flag THEN {x} ELSE {}

\* the sockets after a pass o of direction dir: what is left to read, what
\* was written, which halves the proxy has shut down (_wr, _rd) and which
\* peer has been seen to close (_eof)
WireAfter(w, dir, o) ==
    IF dir = "Downstream"
    THEN [w EXCEPT !.s2p = IF o.eof THEN <<>> ELSE Drop(w.s2p, o.took),
                   !.p2c = w.p2c \o o.wrote,
                   !.shut = w.shut \cup SetOf(o.shutWr, "client_wr")
                                   \cup SetOf(o.shutRd, "server_rd")
                                   \cup SetOf(o.eof, "server_eof")]
    ELSE [w EXCEPT !.c2p = IF o.eof THEN <<>> ELSE Drop(w.c2p, o.took),
                   !.p2s = w.p2s \o o.wrote,
                   !.shut = w.shut \cup SetOf(o.shutWr, "server_wr")
                                   \cup SetOf(o.shutRd, "client_rd")
                                   \cup SetOf(o.eof, "client_eof")]

\* a pass returned Err, or an assertion of handle_one failed
PassFails(n, id, o) ==
    /\ o.status # "ok"
    /\ IF o.status = "err"
       THEN /\ log' = Emit(log, id, <<EvAborted(o.error)>>)
            /\ Remove(n)
            /\ pc' = "dispatch"
       ELSE /\ pc' = "panicked"
            /\ UNCHANGED <<log, forwarders, slab_len, slab_free, poller>>
    /\ UNCHANGED cur

\* client.clear(); server.clear(); downstream.handle_one(Downstream, sink,
\* server, client)
PumpDownstream ==
    /\ pc = "pump_down"
    /\ LET n == cur.n
           f == forwarders[n]
       IN \E o \in HandleOne(f.downstream, "Downstream", wire[f.id].s2p) :
            /\ wire' = [wire EXCEPT ![f.id] = WireAfter(@, "Downstream", o)]
            /\ dlog' = EmitDir(dlog, f.id, "Downstream", o.events)
            /\ \/ PassFails(n, f.id, o)
               \/ /\ o.status = "ok"
                  /\ forwarders' = [forwarders EXCEPT ![n] =
                         [f EXCEPT !.downstream = o.copy,
                                   !.client = Need(Clear(f.client), SetOf(o.needW, "W")),
                                   !.server = Need(Clear(f.server), SetOf(o.needR, "R"))]]
                  /\ cur' = [cur EXCEPT !.progress = o.progress]
                  /\ pc' = "pump_up"
                  /\ UNCHANGED <<log, slab_len, slab_free, poller>>
    /\ UNCHANGED <<batch, listeners, token_base, forward_addr, ids, wake, scen, besidesProxy>>

\* The end of Running::process and of handle_forward_event for forwarder f
\* in slot n, once the loop has ended: update_registration on client and
\* server (regok: the registry calls succeed), finished(), End, removal.
PumpEnd(n, f, regok) ==
    IF ~regok
    THEN /\ log' = Emit(log, f.id, <<EvAborted("registering")>>)
         /\ Remove(n)
    ELSE IF Finished(f.upstream) /\ Finished(f.downstream)
    THEN /\ log' = Emit(log, f.id, <<EvEnd>>)
         /\ Remove(n)
    ELSE /\ UNCHANGED log
         /\ forwarders' = [forwarders EXCEPT ![n] =
                [f EXCEPT !.client = update_registration(f.client),
                          !.server = update_registration(f.server)]]
         /\ poller' = [poller EXCEPT
                          ![f.client.token] = Installed(@, update_registration(f.client)),
                          ![f.server.token] = Installed(@, update_registration(f.server))]
         /\ UNCHANGED <<slab_len, slab_free>>

\* upstream.handle_one(Upstream, sink, client, server), and then either the
\* next turn of the loop or its end
PumpUpstream ==
    /\ pc = "pump_up"
    /\ LET n == cur.n
           f == forwarders[n]
       IN \E o \in HandleOne(f.upstream, "Upstream", wire[f.id].c2p) :
            /\ wire' = [wire EXCEPT ![f.id] = WireAfter(@, "Upstream", o)]
            /\ dlog' = EmitDir(dlog, f.id, "Upstream", o.events)
            /\ \/ PassFails(n, f.id, o)
               \/ /\ o.status = "ok"
                  /\ LET g == [f EXCEPT !.upstream = o.copy,
                                        !.client = Need(f.client, SetOf(o.needR, "R")),
                                        !.server = Need(f.server, SetOf(o.needW, "W"))]
                     IN IF cur.progress \/ o.progress
                        THEN /\ forwarders' = [forwarders EXCEPT ![n] = g]
                             /\ pc' = "pump_down"
                             /\ UNCHANGED <<log, slab_len, slab_free, poller>>
                        ELSE /\ \E regok \in (IF RegistryCall(g.client) \/ RegistryCall(g.server)
                                              THEN BOOLEAN ELSE {TRUE}) :
                                   PumpEnd(n, g, regok)
                             /\ pc' = "dispatch"
                  /\ UNCHANGED cur
    /\ UNCHANGED <<batch, listeners, token_base, forward_addr, ids, wake, scen, besidesProxy>>

(***************************************************************************)
(* The MAPI framing analyzer (src/mapi/analyzer.rs).  An Analyzer is a     *)
(* record of one shape; the fields a variant does not carry hold 0 or      *)
(* FALSE.                                                                  *)
(***************************************************************************)
HeadState(boundary, was_body) ==
    [kind |-> "Head", boundary |-> boundary, was_body |-> was_body,
     byte1 |-> 0, still_needed |-> 0, len |-> 0, last |-> FALSE]

PartialHead(byte1) ==
    [kind |-> "PartialHead", boundary |-> FALSE, was_body |-> FALSE,
     byte1 |-> byte1, still_needed |-> 0, len |-> 0, last |-> FALSE]

Body(still_needed, len, last) ==
    [kind |-> "Body", boundary |-> FALSE, was_body |-> FALSE,
     byte1 |-> 0, still_needed |-> still_needed, len |-> len, last |-> last]

Unix0 ==
    [kind |-> "Unix0", boundary |-> FALSE, was_body |-> FALSE,
     byte1 |-> 0, still_needed |-> 0, len |-> 0, last |-> FALSE]

Error ==
    [kind |-> "Error", boundary |-> FALSE, was_body |-> FALSE,
     byte1 |-> 0, still_needed |-> 0, len |-> 0, last |-> FALSE]

\* Analyzer::new
AnalyzerNew(unix_client) == IF unix_client THEN Unix0 ELSE HeadState(TRUE, FALSE)

\* parse_header, but with the bytes of the header in the other order
parse_header_big_endian(byte1, byte2) ==
    LET n == (256 * byte1 + byte2) % (U16Max + 1)
        len == n \div 2
    IN IF len <= MaxBlock THEN Body(len, len, n % 2 > 0) ELSE Error

\* Analyzer::parse_header, in u16 arithmetic
parse_header(byte1, byte2) ==
    LET n == (byte1 + 256 * byte2) % (U16Max + 1)
        len == n \div 2
    IN IF len <= MaxBlock THEN Body(len, len, n % 2 > 0) ELSE Error

Some(taken, new_state) == [some |-> TRUE, taken |-> taken, state |-> new_state]

None(state) == [some |-> FALSE, taken |-> 0, state |-> state]

\* analyze, but a part of a body leaves still_needed as it was
analyze_uncounted(a, d) ==
    LET n == Len(d) IN
    IF a.kind = "Head" /\ n >= 2 THEN Some(2, parse_header(d[1], d[2]))
    ELSE IF a.kind = "Head" /\ n = 1 THEN Some(1, PartialHead(d[1]))
    ELSE IF a.kind = "PartialHead" /\ n >= 1 THEN Some(1, parse_header(a.byte1, d[1]))
    ELSE IF a.kind = "Body" /\ a.still_needed <= n
    THEN Some(a.still_needed, HeadState(a.last, TRUE))
    ELSE IF a.kind = "Body" /\ n >= 1
    THEN Some(n, Body(a.still_needed, a.len, a.last))
    ELSE IF n = 0 THEN None(a)
    ELSE IF a.kind = "Error" THEN Some(Min(n, U16Max), Error)
    ELSE IF d[1] = Zero THEN Some(1, HeadState(TRUE, FALSE))
    ELSE Some(1, Error)

\* analyze, but every block that ends is taken for the last of its message
analyze_every_block_last(a, d) ==
    LET n == Len(d) IN
    IF a.kind = "Head" /\ n >= 2 THEN Some(2, parse_header(d[1], d[2]))
    ELSE IF a.kind = "Head" /\ n = 1 THEN Some(1, PartialHead(d[1]))
    ELSE IF a.kind = "PartialHead" /\ n >= 1 THEN Some(1, parse_header(a.byte1, d[1]))
    ELSE IF a.kind = "Body" /\ a.still_needed <= n
    THEN Some(a.still_needed, HeadState(TRUE, TRUE))
    ELSE IF a.kind = "Body" /\ n >= 1
    THEN Some(n, Body(a.still_needed - n, a.len, a.last))
    ELSE IF n = 0 THEN None(a)
    ELSE IF a.kind = "Error" THEN Some(Min(n, U16Max), Error)
    ELSE IF d[1] = Zero THEN Some(1, HeadState(TRUE, FALSE))
    ELSE Some(1, Error)

\* analyze, but with the arm for the empty slice first: a block of no bytes
\* waits for the next bytes
analyze_empty_first(a, d) ==
    LET n == Len(d) IN
    IF n = 0 THEN None(a)
    ELSE IF a.kind = "Head" /\ n >= 2 THEN Some(2, parse_header(d[1], d[2]))
    ELSE IF a.kind = "Head" /\ n = 1 THEN Some(1, PartialHead(d[1]))
    ELSE IF a.kind = "PartialHead" /\ n >= 1 THEN Some(1, parse_header(a.byte1, d[1]))
    ELSE IF a.kind = "Body" /\ a.still_needed <= n
    THEN Some(a.still_needed, HeadState(a.last, TRUE))
    ELSE IF a.kind = "Body" /\ n >= 1
    THEN Some(n, Body(a.still_needed - n, a.len, a.last))
    ELSE IF a.kind = "Error" THEN Some(Min(n, U16Max), Error)
    ELSE IF d[1] = Zero THEN Some(1, HeadState(TRUE, FALSE))
    ELSE Some(1, Error)

\* Analyzer::analyze: the arms of the match in their order
analyze(a, d) ==
    LET n == Len(d) IN
    IF a.kind = "Head" /\ n >= 2 THEN Some(2, parse_header(d[1], d[2]))
    ELSE IF a.kind = "Head" /\ n = 1 THEN Some(1, PartialHead(d[1]))
    ELSE IF a.kind = "PartialHead" /\ n >= 1 THEN Some(1, parse_header(a.byte1, d[1]))
    ELSE IF a.kind = "Body" /\ a.still_needed <= n
    THEN Some(a.still_needed, HeadState(a.last, TRUE))
    ELSE IF a.kind = "Body" /\ n >= 1
    THEN Some(n, Body(a.still_needed - n, a.len, a.last))
    ELSE IF n = 0 THEN None(a)
    ELSE IF a.kind = "Error" THEN Some(Min(n, U16Max), Error)
    ELSE IF d[1] = Zero THEN Some(1, HeadState(TRUE, FALSE))
    ELSE Some(1, Error)

\* split_chunk, but the slice left starts one byte late
split_chunk_skipping(a, d) ==
    LET r == analyze(a, d) IN
    [some |-> r.some, head |-> Take(d, r.taken), tail |-> Drop(d, r.taken + 1),
     state |-> r.state]

\* Analyzer::split_chunk: the prefix returned, the slice left, the new state
split_chunk(a, d) ==
    LET r == analyze(a, d) IN
    [some |-> r.some, head |-> Take(d, r.taken), tail |-> Drop(d, r.taken),
     state |-> r.state]

\* check_incomplete, but content with any block boundary
check_incomplete_lenient(a) ==
    IF a.kind = "Head" THEN "Ok"
    ELSE IF a.kind = "PartialHead" THEN "in the middle of the header block"
    ELSE IF a.kind = "Body" /\ ~a.last THEN "in the middle of a block"
    ELSE IF a.kind = "Body" THEN "in the middle of the last block of the message"
    ELSE "Ok"

\* Analyzer::check_incomplete: Ok, or where the peer stopped
check_incomplete(a) ==
    IF a.kind = "Head" /\ a.boundary THEN "Ok"
    ELSE IF a.kind = "Head" THEN "on a block boundary but not on a message boundary"
    ELSE IF a.kind = "PartialHead" THEN "in the middle of the header block"
    ELSE IF a.kind = "Body" /\ ~a.last THEN "in the middle of a block"
    ELSE IF a.kind = "Body" THEN "in the middle of the last block of the message"
    ELSE "Ok"

\* the bytes of the streams fed: header bytes for empty and short blocks,
\* last or not, the sentinel, and a second header byte that is too large
Bytes == {0, 1, 4, Zero, 64}

\* the states an analyzer is started from: those the steps of analyze can
\* leave it in (Head without a message boundary only after a body, Body
\* with bytes still needed or without any)
AnalyzerStates ==
    {HeadState(TRUE, FALSE), HeadState(TRUE, TRUE), HeadState(FALSE, TRUE)}
    \cup {PartialHead(b) : b \in Bytes}
    \cup {Body(k, l, last) : k \in 1 .. 2, l \in {2, MaxBlock}, last \in BOOLEAN}
    \cup {Body(0, 0, last) : last \in BOOLEAN}
    \cup {Unix0, Error}

Chunks == UNION {[1 .. k -> Bytes] : k \in 0 .. MaxChunk}

\* a cap on the split_chunk calls on one chunk, above what any chunk needs
MaxCalls == 2 * MaxChunk + 4

AnalyzerIdle ==
    /\ analyzer = AnalyzerNew(FALSE)
    /\ data = <<>>
    /\ chunk = <<>>
    /\ fed = <<>>
    /\ consumed = <<>>
    /\ returned = "-"
    /\ calls = 0
    /\ incomplete = "-"

AnalyzerInit ==
    /\ analyzer \in AnalyzerStates
    /\ data = <<>>
    /\ chunk = <<>>
    /\ fed = <<>>
    /\ consumed = <<>>
    /\ returned = "-"
    /\ calls = 0
    /\ incomplete = "-"

\* Accumulator::handle_data is called with the payload of a Data event
\* (mapi/mod.rs:195-215): the loop over split_chunk starts on it
FeedChunk ==
    /\ returned \in {"-", "None"}
    /\ incomplete = "-"
    /\ \E c \in Chunks :
          /\ Len(fed) + Len(c) <= MaxStream
          /\ chunk' = c
          /\ data' = c
          /\ fed' = fed \o c
    /\ returned' = "Fed"
    /\ calls' = 0
    /\ UNCHANGED <<analyzer, consumed, incomplete>>
    /\ UNCHANGED besidesAnalyzer

\* one turn of while let Some(head) = self.analyzer.split_chunk(&mut data)
SplitChunk ==
    /\ returned \in {"Fed", "Some"}
    /\ calls < MaxCalls
    /\ LET r == split_chunk(analyzer, data) IN
          /\ analyzer' = r.state
          /\ returned' = IF r.some THEN "Some" ELSE "None"
          /\ data' = IF r.some THEN r.tail ELSE data
          /\ consumed' = IF r.some THEN consumed \o r.head ELSE consumed
    /\ calls' = calls + 1
    /\ UNCHANGED <<chunk, fed, incomplete>>
    /\ UNCHANGED besidesAnalyzer

\* the connection closes: Accumulator::check_incomplete (mapi/mod.rs:278-286)
CheckIncomplete ==
    /\ returned \in {"-", "None"}
    /\ incomplete = "-"
    /\ incomplete' = check_incomplete(analyzer)
    /\ UNCHANGED <<analyzer, data, chunk, fed, consumed, returned, calls>>
    /\ UNCHANGED besidesAnalyzer

AnalyzerNext ==
    \/ FeedChunk
    \/ SplitChunk
    \/ CheckIncomplete

\* the header bytes fed when headers are decoded: every first byte, and the
\* second bytes around which the block length crosses 0, 8190 and 2^15
FirstBytes == 0 .. 255

SecondBytes == {0, 1, 62, 63, 64, 127, 128, 255}

\* handle_data is called with the two bytes of a header, in one chunk or
\* one byte at a time
FeedHeader ==
    /\ returned \in {"-", "None"}
    /\ \E c \in IF fed = <<>>
                THEN {<<b1>> : b1 \in FirstBytes}
                     \cup {<<b1, b2>> : b1 \in FirstBytes, b2 \in SecondBytes}
                ELSE {<<b2>> : b2 \in SecondBytes} :
          /\ Len(fed) + Len(c) <= 2
          /\ chunk' = c
          /\ data' = c
          /\ fed' = fed \o c
    /\ returned' = "Fed"
    /\ calls' = 0
    /\ UNCHANGED <<analyzer, consumed, incomplete>>
    /\ UNCHANGED besidesAnalyzer

HeaderNext ==
    \/ FeedHeader
    \/ SplitChunk

(***************************************************************************)
(* The accumulator of frames: mapi/mod.rs                                  *)
(***************************************************************************)
\* Analyzer::was_body
was_body(a) ==
    CASE a.kind = "Body" -> a.still_needed < a.len
      [] a.kind = "Head" -> a.was_body
      [] OTHER -> FALSE

\* Analyzer::was_block_boundary
was_block_boundary(a) == a.kind = "Head"

\* Analyzer::was_message_boundary
was_message_boundary(a) == a.kind = "Head" /\ a.boundary

\* a turn of handle_frame that renders the last piece of the frame alone
frame_turn_unbuffered(lvl, a, b, fs, piece) ==
    IF ~was_body(a) THEN [buf |-> b, frames |-> fs]
    ELSE LET at_end == IF lvl = "Blocks" THEN was_block_boundary(a)
                       ELSE was_message_boundary(a)
         IN IF ~at_end THEN [buf |-> b \o piece, frames |-> fs]
            ELSE [buf |-> <<>>, frames |-> Append(fs, piece)]

\* the body of the loop of Accumulator::handle_frame, after split_chunk has
\* returned piece and left the analyzer in a: the buffer and the frames
\* rendered after it
frame_turn(lvl, a, b, fs, piece) ==
    IF ~was_body(a) THEN [buf |-> b, frames |-> fs]
    ELSE LET at_end == IF lvl = "Blocks" THEN was_block_boundary(a)
                       ELSE was_message_boundary(a)
         IN IF ~at_end THEN [buf |-> b \o piece, frames |-> fs]
            ELSE LET frame == IF b = <<>> THEN piece ELSE b \o piece
                 IN [buf |-> <<>>, frames |-> Append(fs, frame)]

\* the bytes of the streams that are cut into frames: as a header, a block
\* of 0 or 1 bytes that is or is not the last of its message
FrameBytes == {0, 1, 2, 3}

MaxFrameStream == 6

FrameChunks == UNION {[1 .. k -> FrameBytes] : k \in 0 .. MaxChunk}

\* no accumulator of frames
AccumulatorIdle ==
    /\ level = "Raw"
    /\ unix_stream = FALSE
    /\ buf = <<>>
    /\ frames = <<>>
    /\ direction = "Upstream"
    /\ peer_unix = FALSE

\* Accumulator::new at one of the levels that make frames
AccumulatorInit ==
    /\ level \in {"Blocks", "Messages"}
    /\ unix_stream \in BOOLEAN
    /\ analyzer = AnalyzerNew(unix_stream)
    /\ data = <<>>
    /\ chunk = <<>>
    /\ fed = <<>>
    /\ consumed = <<>>
    /\ returned = "-"
    /\ calls = 0
    /\ incomplete = "-"
    /\ buf = <<>>
    /\ frames = <<>>
    /\ direction = "Upstream"
    /\ peer_unix = unix_stream

\* Accumulator::handle_data is called with the payload of a Data event; the
\* stream of a Unix client may start with the '0' it has to start with
FeedFrameData ==
    /\ returned \in {"-", "None"}
    /\ \E c \in FrameChunks \cup
                (IF unix_stream /\ fed = <<>>
                 THEN {<<Zero>> \o t : t \in FrameChunks} ELSE {}) :
          /\ Len(fed) + Len(c) <= MaxFrameStream
          /\ chunk' = c
          /\ data' = c
          /\ fed' = fed \o c
    /\ returned' = "Fed"
    /\ calls' = 0
    /\ UNCHANGED <<analyzer, consumed, incomplete>>
    /\ UNCHANGED <<level, unix_stream, buf, frames, direction, peer_unix>>
    /\ UNCHANGED besidesAccumulator

\* one turn of while let Some(chunk) = self.analyzer.split_chunk(&mut data)
\* in handle_frame
SplitFrame ==
    /\ level \in {"Blocks", "Messages"}
    /\ returned \in {"Fed", "Some"}
    /\ calls < MaxCalls
    /\ LET r == split_chunk(analyzer, data) IN
          /\ analyzer' = r.state
          /\ returned' = IF r.some THEN "Some" ELSE "None"
          /\ data' = IF r.some THEN r.tail ELSE data
          /\ consumed' = IF r.some THEN consumed \o r.head ELSE consumed
          /\ LET t == frame_turn(level, r.state, buf, frames, r.head) IN
                /\ buf' = IF r.some THEN t.buf ELSE buf
                /\ frames' = IF r.some THEN t.frames ELSE frames
    /\ calls' = calls + 1
    /\ UNCHANGED <<chunk, fed, incomplete, level, unix_stream, direction, peer_unix>>
    /\ UNCHANGED besidesAccumulator

AccumulatorNext ==
    \/ FeedFrameData
    \/ SplitFrame

(***************************************************************************)
(* The accumulators of a connection at the Raw level: mapi/mod.rs          *)
(***************************************************************************)
\* was_head, but true only once the header is whole
was_head_whole(a) ==
    CASE a.kind = "Body" -> a.still_needed = a.len
      [] OTHER -> FALSE

\* Analyzer::was_head
was_head(a) ==
    CASE a.kind = "PartialHead" -> TRUE
      [] a.kind = "Body" -> a.still_needed = a.len
      [] OTHER -> FALSE

\* Accumulator::new: the fields of it that depend on its arguments
AccumulatorNew(dir, unix_client) ==
    [direction |-> dir, unix_client |-> unix_client,
     analyzer |-> AnalyzerNew(unix_client)]

\* add_connection, but both accumulators are made for the peer of the client
add_connection_both(unix_client) ==
    [Upstream |-> AccumulatorNew("Upstream", unix_client),
     Downstream |-> AccumulatorNew("Downstream", unix_client)]

\* State::add_connection: the pair of accumulators of the connection
add_connection(unix_client) ==
    [Upstream |-> AccumulatorNew("Upstream", unix_client),
     Downstream |-> AccumulatorNew("Downstream", FALSE)]

\* the bytes of the streams of a connection: as a header, a block of 0 or 2
\* bytes that is or is not the last of its message; and the '0'
StreamBytes == {0, 1, 4, 5, Zero}

MaxRawStream == 4

StreamChunks == UNION {[1 .. k -> StreamBytes] : k \in 0 .. MaxChunk}

\* Incoming has been handled for a connection (mapi/mod.rs:38-45), and one
\* of its two accumulators is followed
StreamInit ==
    /\ level = "Raw"
    /\ peer_unix \in BOOLEAN
    /\ direction \in {"Upstream", "Downstream"}
    /\ unix_stream = add_connection(peer_unix)[direction].unix_client
    /\ analyzer = add_connection(peer_unix)[direction].analyzer
    /\ data = <<>>
    /\ chunk = <<>>
    /\ fed = <<>>
    /\ consumed = <<>>
    /\ returned = "-"
    /\ calls = 0
    /\ incomplete = "-"
    /\ buf = <<>>
    /\ frames = <<>>

\* Accumulator::handle_raw is called with the payload of a Data event
FeedRaw ==
    /\ level = "Raw"
    /\ returned \in {"-", "None"}
    /\ incomplete = "-"
    /\ \E c \in StreamChunks :
          /\ Len(fed) + Len(c) <= MaxRawStream
          /\ chunk' = c
          /\ data' = c
          /\ fed' = fed \o c
    /\ returned' = "Fed"
    /\ calls' = 0
    /\ UNCHANGED <<analyzer, consumed, incomplete>>
    /\ UNCHANGED besidesAnalyzer

StreamNext ==
    \/ FeedRaw
    \/ SplitChunk
    \/ CheckIncomplete

(***************************************************************************)
(* The TCP tracker of the pcap reader: pcap/tcp.rs                         *)
(***************************************************************************)
\* a u32 as its two 16-bit halves, the high half first
Half == 65536

U32(hi, lo) == <<hi, lo>>

\* u32::wrapping_add of a length below 2^16
wrapping_add(a, n) ==
    LET lo == a[2] + n IN U32((a[1] + lo \div Half) % Half, lo % Half)

\* u32::wrapping_sub
wrapping_sub(a, b) ==
    LET borrow == IF a[2] < b[2] THEN 1 ELSE 0
    IN U32((a[1] - b[1] - borrow + 2 * Half) % Half, (a[2] - b[2] + Half) % Half)

\* (delta as i32) < 0: the top bit of the u32 is set
NegativeAsI32(delta) == delta[1] >= Half \div 2

\* Key and Key::flip
Key(src, dest) == [src |-> src, dest |-> dest]

\* a flip that leaves the key as it is
flip_same(key) == key

flip(key) == Key(key.dest, key.src)

\* the waiting map of a half with nothing in it
NoWaiting == [q \in {} |-> [payload |-> <<>>, fin |-> FALSE]]

\* StreamState::new
StreamStateNew(id, dir, seqno) ==
    [id |-> id, dir |-> dir, waiting_for |-> seqno, waiting |-> NoWaiting,
     finished |-> FALSE]

\* Option<payload> as a record
Yielded(payload) == [some |-> TRUE, payload |-> payload]

NotYielded == [some |-> FALSE, payload |-> <<>>]

\* yield_payload that forgets the FIN flag of the packet
yield_payload_unfinished(stream, payload, fin) ==
    [stream EXCEPT !.waiting_for = wrapping_add(stream.waiting_for, Len(payload))]

\* StreamState::yield_payload: the half after it
yield_payload(stream, payload, fin) ==
    [stream EXCEPT !.finished = stream.finished \/ fin,
                   !.waiting_for = wrapping_add(stream.waiting_for, Len(payload))]

\* the waiting map with an entry inserted, or replaced
Insert(waiting, seqno, payload, fin) ==
    [q \in DOMAIN waiting \cup {seqno} |->
        IF q = seqno THEN [payload |-> payload, fin |-> fin] ELSE waiting[q]]

\* reorder that compares the sequence numbers without wrapping
reorder_unwrapped(stream, seqno, fin, payload) ==
    IF stream.waiting_for = seqno
    THEN [stream |-> yield_payload(stream, payload, fin), out |-> Yielded(payload)]
    ELSE IF seqno[1] < stream.waiting_for[1]
            \/ (seqno[1] = stream.waiting_for[1] /\ seqno[2] < stream.waiting_for[2])
         THEN [stream |-> stream, out |-> NotYielded]
         ELSE [stream |-> [stream EXCEPT
                              !.waiting = Insert(stream.waiting, seqno, payload, fin)],
               out |-> NotYielded]

\* reorder that takes no segment for a packet of the past
reorder_storing_past(stream, seqno, fin, payload) ==
    IF stream.waiting_for = seqno
    THEN [stream |-> yield_payload(stream, payload, fin), out |-> Yielded(payload)]
    ELSE [stream |-> [stream EXCEPT
                         !.waiting = Insert(stream.waiting, seqno, payload, fin)],
          out |-> NotYielded]

\* StreamState::reorder: the half after it and what it returns
reorder(stream, seqno, fin, payload) ==
    IF stream.waiting_for = seqno
    THEN [stream |-> yield_payload(stream, payload, fin), out |-> Yielded(payload)]
    ELSE LET delta == wrapping_sub(seqno, stream.waiting_for) IN
         IF NegativeAsI32(delta)
         THEN [stream |-> stream, out |-> NotYielded]
         ELSE [stream |-> [stream EXCEPT
                              !.waiting = Insert(stream.waiting, seqno, payload, fin)],
               out |-> NotYielded]

\* StreamState::next_ready: the half after it and what it returns
next_ready(stream) ==
    IF stream.waiting_for \in DOMAIN stream.waiting
    THEN LET e == stream.waiting[stream.waiting_for]
             removed == [stream EXCEPT !.waiting =
                            [q \in DOMAIN stream.waiting \ {stream.waiting_for} |->
                                stream.waiting[q]]]
         IN [stream |-> yield_payload(removed, e.payload, e.fin),
             out |-> Yielded(e.payload)]
    ELSE [stream |-> stream, out |-> NotYielded]

\* an event of a connection of the capture, with the addresses that
\* Incoming and Connected carry
OfAddrs(id, ev, local, peer) == [id |-> id, ev |-> ev, local |-> local, peer |-> peer]

\* an event that carries no address
Of(id, ev) == OfAddrs(id, ev, "-", "-")

\* TcpTracker::emit_data: the events it hands to the handler
emit_data(id, dir, payload) ==
    IF payload # <<>> THEN <<Of(id, EvData(dir, payload))>> ELSE <<>>

\* while let Some(payload) = stream.next_ready() { emit_data(..) }
RECURSIVE Drain(_, _)
Drain(stream, events) ==
    LET r == next_ready(stream) IN
    IF r.out.some
    THEN Drain(r.stream, events \o emit_data(stream.id, stream.dir, r.out.payload))
    ELSE [stream |-> stream, events |-> events]

\* the peers of the captured flow
ClientKey == Key("client", "server")

ServerKey == Key("server", "client")

Keys == {ClientKey, ServerKey}

\* a segment of a half: what it carries and whether it carries FIN
Segment(payload, fin) == [payload |-> payload, fin |-> fin]

\* the captured flows: the initial sequence numbers of the peers and the
\* segments each sends, in the order of their sequence numbers.  An empty
\* segment acknowledges what the other peer sent.
Reordered ==
    [isn_up |-> U32(0, 99), isn_down |-> U32(0, 499), crossed |-> FALSE,
     up |-> <<Segment(<<65, 66>>, FALSE), Segment(<<>>, FALSE),
              Segment(<<67, 68>>, FALSE), Segment(<<69, 70>>, TRUE)>>,
     down |-> <<Segment(<<>>, TRUE)>>]

Wrapping ==
    [isn_up |-> U32(65535, 65519), isn_down |-> U32(65535, 65535),
     crossed |-> FALSE,
     up |-> <<Segment([i \in 1 .. 21 |-> i], FALSE), Segment(<<77, 78>>, TRUE)>>,
     down |-> <<Segment(<<48>>, FALSE), Segment(<<>>, TRUE)>>]

Captures == {Reordered, Wrapping}

\* a flow that both peers open: the server sends a SYN without ACK of its
\* own besides its SYN with ACK
Crossed ==
    [isn_up |-> U32(65535, 65535), isn_down |-> U32(0, 19), crossed |-> TRUE,
     up |-> <<Segment(<<65>>, TRUE)>>,
     down |-> <<Segment(<<66>>, TRUE)>>]

\* the packets handled of one capture
MaxPackets == 8

\* the segments of the half with a key, and its initial sequence number
SegmentsOf(key) == IF key = ClientKey THEN capture.up ELSE capture.down

IsnOf(key) == IF key = ClientKey THEN capture.isn_up ELSE capture.isn_down

\* the sequence number of segment i of a half: SYN takes one, every byte
\* before the segment takes one
RECURSIVE BytesBefore(_, _)
BytesBefore(segments, i) ==
    IF i = 0 THEN 0 ELSE BytesBefore(segments, i - 1) + Len(segments[i].payload)

SeqOf(key, i) == wrapping_add(wrapping_add(IsnOf(key), 1), BytesBefore(SegmentsOf(key), i - 1))

\* the packets of the capture: the TcpSlice fields that handle reads, and
\* the place of the segment in its half
Packet(key, syn, ack, fin, seq, payload, ix) ==
    [key |-> key, syn |-> syn, ack |-> ack, fin |-> fin, seq |-> seq,
     payload |-> payload, ix |-> ix]

Packets ==
    {Packet(ClientKey, TRUE, FALSE, FALSE, IsnOf(ClientKey), <<>>, 0),
     Packet(ServerKey, TRUE, TRUE, FALSE, IsnOf(ServerKey), <<>>, 0)}
    \cup {Packet(k, FALSE, TRUE, SegmentsOf(k)[i].fin, SeqOf(k, i),
                 SegmentsOf(k)[i].payload, i) :
             k \in {ClientKey}, i \in DOMAIN capture.up}
    \cup {Packet(k, FALSE, TRUE, SegmentsOf(k)[i].fin, SeqOf(k, i),
                 SegmentsOf(k)[i].payload, i) :
             k \in {ServerKey}, i \in DOMAIN capture.down}
    \cup (IF capture.crossed
          THEN {Packet(ServerKey, TRUE, FALSE, FALSE, IsnOf(ServerKey), <<>>, 0)}
          ELSE {})

\* TcpTracker::new
TrackerNew ==
    /\ conn_ids = FirstId
    /\ streams = [k \in {} |-> StreamStateNew(0, "-", U32(0, 0))]
    /\ emitted = <<>>
    /\ handled = 0
    /\ packet = Packet(ClientKey, FALSE, FALSE, FALSE, U32(0, 0), <<>>, 0)
    /\ seen = [k \in Keys |-> {}]

\* no capture is read
TrackerIdle ==
    /\ TrackerNew
    /\ capture = [isn_up |-> U32(0, 0), isn_down |-> U32(0, 0),
                  crossed |-> FALSE, up |-> <<>>, down |-> <<>>]

TrackerInit ==
    /\ TrackerNew
    /\ capture \in Captures

\* streams.insert(key, stream)
Stored(key, stream) ==
    [k \in DOMAIN streams \cup {key} |-> IF k = key THEN stream ELSE streams[k]]

\* TcpTracker::handle_syn, for a packet with SYN and without ACK
HandleSyn ==
    /\ handled < MaxPackets
    /\ \E p \in Packets :
          /\ p.syn /\ ~p.ack
          /\ packet' = p
          /\ IF p.key \in DOMAIN streams \/ flip(p.key) \in DOMAIN streams
             THEN UNCHANGED <<conn_ids, streams, emitted, seen>>
             ELSE LET id == conn_ids
                      upstream == StreamStateNew(id, "Upstream",
                                                 wrapping_add(p.seq, 1))
                  IN /\ conn_ids' = conn_ids + 1
                     /\ emitted' = Append(emitted, OfAddrs(id, EvIncoming,
                                                        p.key.dest, p.key.src))
                     /\ streams' = Stored(p.key, upstream)
                     /\ seen' = [k \in Keys |-> {}]
    /\ handled' = handled + 1
    /\ UNCHANGED capture
    /\ UNCHANGED besidesTracker

\* handle_syn_ack that takes a new id for the downstream half
HandleSynAckNewId ==
    /\ handled < MaxPackets
    /\ \E p \in Packets :
          /\ p.syn /\ p.ack
          /\ packet' = p
          /\ IF flip(p.key) \notin DOMAIN streams
             THEN UNCHANGED <<conn_ids, streams, emitted, seen>>
             ELSE LET id == conn_ids
                      downstream == StreamStateNew(id, "Downstream",
                                                   wrapping_add(p.seq, 1))
                  IN /\ conn_ids' = conn_ids + 1
                     /\ emitted' = Append(emitted, OfAddrs(id, EvConnected, "-", p.key.src))
                     /\ streams' = Stored(p.key, downstream)
                     /\ seen' = [seen EXCEPT ![p.key] = {}]
    /\ handled' = handled + 1
    /\ UNCHANGED capture
    /\ UNCHANGED besidesTracker

\* TcpTracker::handle_syn_ack, for a packet with SYN and ACK
HandleSynAck ==
    /\ handled < MaxPackets
    /\ \E p \in Packets :
          /\ p.syn /\ p.ack
          /\ packet' = p
          /\ IF flip(p.key) \notin DOMAIN streams
             THEN UNCHANGED <<streams, emitted, seen>>
             ELSE LET id == streams[flip(p.key)].id
                      downstream == StreamStateNew(id, "Downstream",
                                                   wrapping_add(p.seq, 1))
                  IN /\ emitted' = Append(emitted, OfAddrs(id, EvConnected, "-", p.key.src))
                     /\ streams' = Stored(p.key, downstream)
                     /\ seen' = [seen EXCEPT ![p.key] = {}]
    /\ handled' = handled + 1
    /\ UNCHANGED <<conn_ids, capture>>
    /\ UNCHANGED besidesTracker

\* TcpTracker::handle_existing for a packet of a half with this state: the
\* half after it, and the events handed to the handler before the test of
\* the flipped half
Existing(stream, p) ==
    LET r == reorder(stream, p.seq, p.fin, p.payload) IN
    IF ~r.out.some THEN [stream |-> r.stream, events |-> <<>>, some |-> FALSE]
    ELSE LET d == Drain(r.stream, emit_data(stream.id, stream.dir, r.out.payload))
         IN [stream |-> d.stream,
             events |-> d.events \o
                        (IF d.stream.finished
                         THEN <<Of(stream.id, EvShutdownRead(stream.dir))>>
                         ELSE <<>>),
             some |-> TRUE]

\* handle_existing, but the halves stay in the flow table when End is
\* emitted
HandleExistingKeepsHalves ==
    /\ handled < MaxPackets
    /\ \E p \in Packets :
          /\ ~p.syn
          /\ packet' = p
          /\ IF p.key \notin DOMAIN streams
             THEN UNCHANGED <<streams, emitted, seen>>
             ELSE LET r == Existing(streams[p.key], p)
                      flipped == flip(p.key)
                      both == /\ r.some
                              /\ r.stream.finished
                              /\ flipped \in DOMAIN streams
                              /\ streams[flipped].finished
                  IN /\ streams' = [streams EXCEPT ![p.key] = r.stream]
                     /\ emitted' = emitted \o r.events \o
                           (IF both THEN <<Of(r.stream.id, EvEnd)>> ELSE <<>>)
                     /\ seen' = [seen EXCEPT ![p.key] = @ \cup {p.ix}]
    /\ handled' = handled + 1
    /\ UNCHANGED <<conn_ids, capture>>
    /\ UNCHANGED besidesTracker

\* TcpTracker::handle_existing, for every other packet
HandleExisting ==
    /\ handled < MaxPackets
    /\ \E p \in Packets :
          /\ ~p.syn
          /\ packet' = p
          /\ IF p.key \notin DOMAIN streams
             THEN UNCHANGED <<streams, emitted, seen>>
             ELSE LET r == Existing(streams[p.key], p)
                      flipped == flip(p.key)
                      both == /\ r.some
                              /\ r.stream.finished
                              /\ flipped \in DOMAIN streams
                              /\ streams[flipped].finished
                  IN /\ streams' =
                           IF both
                           THEN [k \in DOMAIN streams \ {p.key, flipped} |->
                                    streams[k]]
                           ELSE [streams EXCEPT ![p.key] = r.stream]
                     /\ emitted' = emitted \o r.events \o
                           (IF both THEN <<Of(r.stream.id, EvEnd)>> ELSE <<>>)
                     /\ seen' = [seen EXCEPT ![p.key] = @ \cup {p.ix}]
    /\ handled' = handled + 1
    /\ UNCHANGED <<conn_ids, capture>>
    /\ UNCHANGED besidesTracker

TrackerNext ==
    \/ HandleSyn
    \/ HandleSynAck
    \/ HandleExisting

(***************************************************************************)
(* The channel between the reactor and the renderer: main.rs, run_proxy    *)
(***************************************************************************)
\* the bound of the sync_channel, 500 in run_proxy
ChannelCapacity == 2

\* the events the reactor emits in a run
MaxEvents == 8

\* send that waits for room also when the receiver is gone
send_returns_to_receiver(ch, rcv) == rcv = "alive" /\ Len(ch) < ChannelCapacity

\* SyncSender::send returns: at once with Err when the receiver is gone,
\* else as soon as the channel has room
send_returns(ch, rcv) == rcv # "alive" \/ Len(ch) < ChannelCapacity

\* no threads: the channel of a run that is not looked at
ChannelIdle ==
    /\ channel = <<>>
    /\ sender = "-"
    /\ receiver = "-"
    /\ sending = 0
    /\ produced = 0
    /\ rendered = <<>>

\* run_proxy has made the channel and spawned the reactor thread
ChannelInit ==
    /\ channel = <<>>
    /\ sender = "alive"
    /\ receiver = "alive"
    /\ sending = 0
    /\ produced = 0
    /\ rendered = <<>>

\* the reactor emits an event: the closure of the EventSink calls send
EmitEvent ==
    /\ sender = "alive"
    /\ sending = 0
    /\ produced < MaxEvents
    /\ produced' = produced + 1
    /\ sending' = produced + 1
    /\ UNCHANGED <<channel, sender, receiver, rendered>>
    /\ UNCHANGED besidesChannel

\* send returns: the event is in the channel, or dropped with the Err that
\* the closure ignores
SendReturns ==
    /\ sender = "alive"
    /\ sending # 0
    /\ send_returns(channel, receiver)
    /\ channel' = IF receiver = "alive" THEN Append(channel, sending) ELSE channel
    /\ sending' = 0
    /\ UNCHANGED <<sender, receiver, produced, rendered>>
    /\ UNCHANGED besidesChannel

\* proxy.run() returns Ok(()): the thread ends and drops the proxy, and
\* with it send_events
RunReturns ==
    /\ sender = "alive"
    /\ sending = 0
    /\ sender' = "dropped"
    /\ UNCHANGED <<channel, receiver, sending, produced, rendered>>
    /\ UNCHANGED besidesChannel

\* recv returns an event, mapi_state.handle renders it: Ok, and the loop
\* goes on, or Err, and run_proxy returns and drops receive_events
Receive ==
    /\ receiver = "alive"
    /\ channel # <<>>
    /\ \/ /\ channel' = Tail(channel)
          /\ rendered' = Append(rendered, Head(channel))
          /\ UNCHANGED receiver
       \/ /\ channel' = <<>>
          /\ receiver' = "dropped"
          /\ UNCHANGED rendered
    /\ UNCHANGED <<sender, sending, produced>>
    /\ UNCHANGED besidesChannel

\* recv returns Err, the channel being empty and send_events dropped: the
\* loop ends and run_proxy returns Ok(())
ReceiveDisconnected ==
    /\ receiver = "alive"
    /\ channel = <<>>
    /\ sender = "dropped"
    /\ receiver' = "dropped"
    /\ UNCHANGED <<channel, sender, sending, produced, rendered>>
    /\ UNCHANGED besidesChannel

ChannelNext ==
    \/ EmitEvent
    \/ SendReturns
    \/ RunReturns
    \/ Receive
    \/ ReceiveDisconnected

\* no connection at all: the proxy side of a run of the analyzer alone
NoConnections ==
    {[conns |-> 0, up |-> 0, down |-> 0, listen |-> <<"tcp">>, forward |-> "Ip"]}

(***************************************************************************)
(* The specifications                                                      *)
(***************************************************************************)
ProxyNext ==
    \/ Trigger
    \/ Poll
    \/ PollError
    \/ BatchDone
    \/ RunShutdown
    \/ RunListener
    \/ RunForward
    \/ AcceptWouldBlock
    \/ AcceptError
    \/ AcceptOk
    \/ ConnectingWait
    \/ ConnectingEstablished
    \/ ConnectingFailed
    \/ PumpDownstream
    \/ PumpUpstream

\* one connection at a time
Init == ProxyInit(PumpScenarios) /\ AnalyzerIdle /\ AccumulatorIdle /\ TrackerIdle /\ ChannelIdle

Next == ProxyNext

Spec == Init /\ [][Next]_vars

\* connections to a Unix server
InitSentinel == ProxyInit(SentinelScenarios) /\ AnalyzerIdle /\ AccumulatorIdle /\ TrackerIdle /\ ChannelIdle

SpecSentinel == InitSentinel /\ [][Next]_vars

\* several connections
InitProxy == ProxyInit(ProxyScenarios) /\ AnalyzerIdle /\ AccumulatorIdle /\ TrackerIdle /\ ChannelIdle

SpecProxy == InitProxy /\ [][Next]_vars

\* several connections that fail next to each other
InitFailures == ProxyInit(FailureScenarios) /\ AnalyzerIdle /\ AccumulatorIdle /\ TrackerIdle /\ ChannelIdle

SpecFailures == InitFailures /\ [][Next]_vars

\* poll returns a batch that holds the event of the waker
PollShutdown ==
    /\ Poll
    /\ \E i \in DOMAIN batch' : batch'[i] = TRIGGER_SHUTDOWN_TOKEN

\* the steps the reactor thread takes by itself: all but the call of the
\* shutdown trigger, which another thread makes or not, and a failure of
\* poll, which the system makes or not
ReactorStep ==
    \/ Poll
    \/ BatchDone
    \/ RunShutdown
    \/ RunListener
    \/ RunForward
    \/ AcceptWouldBlock
    \/ AcceptError
    \/ AcceptOk
    \/ ConnectingWait
    \/ ConnectingEstablished
    \/ ConnectingFailed
    \/ PumpDownstream
    \/ PumpUpstream

\* several connections, with a reactor thread that is scheduled: a call in
\* progress returns, poll returns when a source is ready, and a waker that
\* stays ready is not left out of every batch
SpecProxyFair ==
    /\ InitProxy
    /\ [][Next]_vars
    /\ WF_vars(ReactorStep)
    /\ SF_vars(PollShutdown)

\* poll returns a batch that holds an event of a socket of the forwarder in
\* slot k
PollForwarder(k) ==
    /\ Poll
    /\ \E i \in DOMAIN batch' : batch'[i] \in {ClientToken(k), ServerToken(k)}

\* one connection, with a reactor thread that is scheduled and peers that go
\* on: a socket on which an interest stays installed becomes ready and is
\* not left out of every batch
InitWakeup == ProxyInit(WakeupScenarios) /\ AnalyzerIdle /\ AccumulatorIdle /\ TrackerIdle /\ ChannelIdle

SpecWakeup ==
    /\ InitWakeup
    /\ [][Next]_vars
    /\ WF_vars(ReactorStep)
    /\ \A k \in Slots : SF_vars(PollForwarder(k))

\* an analyzer fed a stream chunk by chunk
InitAnalyzer == ProxyInit(NoConnections) /\ AnalyzerInit /\ AccumulatorIdle /\ TrackerIdle /\ ChannelIdle

SpecAnalyzer == InitAnalyzer /\ [][AnalyzerNext]_vars

\* the accumulators of a connection at the Raw level
InitStream == ProxyInit(NoConnections) /\ StreamInit /\ TrackerIdle /\ ChannelIdle

SpecStream == InitStream /\ [][StreamNext]_vars

\* an analyzer at a block boundary fed one header
InitHeader ==
    /\ ProxyInit(NoConnections)
    /\ AnalyzerInit
    /\ AccumulatorIdle
    /\ TrackerIdle /\ ChannelIdle
    /\ analyzer.kind = "Head"

SpecHeader == InitHeader /\ [][HeaderNext]_vars

\* an accumulator of frames fed a stream chunk by chunk
InitAccumulator == ProxyInit(NoConnections) /\ AccumulatorInit /\ TrackerIdle /\ ChannelIdle

SpecAccumulator == InitAccumulator /\ [][AccumulatorNext]_vars

\* a tracker handed the packets of a capture, in any order and repeatedly
InitTracker ==
    /\ ProxyInit(NoConnections)
    /\ AnalyzerIdle
    /\ AccumulatorIdle
    /\ TrackerInit
    /\ ChannelIdle

SpecTracker == InitTracker /\ [][TrackerNext]_vars

\* the tracker reading the capture of the flow that both peers open
InitCrossed ==
    /\ ProxyInit(NoConnections)
    /\ AnalyzerIdle
    /\ AccumulatorIdle
    /\ TrackerNew
    /\ capture = Crossed
    /\ ChannelIdle

SpecCrossed == InitCrossed /\ [][TrackerNext]_vars

\* the source of the events of a run, as mymain chooses it: the live proxy,
\* or the tracker reading a capture
InitSources ==
    \/ ProxyInit(PumpScenarios \cup ProxyScenarios) /\ AnalyzerIdle /\ AccumulatorIdle
          /\ TrackerIdle /\ ChannelIdle
    \/ InitTracker
    \/ InitCrossed

SourcesNext ==
    \/ capture.up = <<>> /\ ProxyNext
    \/ capture.up # <<>> /\ TrackerNext

SpecSources == InitSources /\ [][SourcesNext]_vars

\* the two threads of run_proxy at the channel, both scheduled: a send that
\* can return returns, and the loop of run_proxy takes the events there are
InitChannel ==
    /\ ProxyInit(NoConnections)
    /\ AnalyzerIdle
    /\ AccumulatorIdle
    /\ TrackerIdle
    /\ ChannelInit

SpecChannel ==
    /\ InitChannel
    /\ [][ChannelNext]_vars
    /\ WF_vars(SendReturns)
    /\ WF_vars(Receive)

(***************************************************************************)
(* What is observed of a connection                                        *)
(***************************************************************************)
Ids == DOMAIN log

Directions == {"Upstream", "Downstream"}

IsPrefix(s, t) == Len(s) <= Len(t) /\ s = SubSeq(t, 1, Len(s))

Types(events) == [i \in DOMAIN events |-> events[i].type]

Occurrences(events, type) == {i \in DOMAIN events : events[i].type = type}

\* the payloads of the Data events of a sequence of events, concatenated
RECURSIVE Payloads(_)
Payloads(events) ==
    IF events = <<>> THEN <<>>
    ELSE (IF Head(events).type = "Data" THEN Head(events).data ELSE <<>>)
         \o Payloads(Tail(events))

\* the discard counts of the ShutdownWrite events of a sequence, added up
RECURSIVE Discards(_)
Discards(events) ==
    IF events = <<>> THEN 0
    ELSE (IF Head(events).type = "ShutdownWrite" THEN Head(events).arg ELSE 0)
         + Discards(Tail(events))

DataCat(id, dir) == Payloads(dlog[id][dir])

\* the bytes written so far to the socket opposite to the source of dir
Delivered(id, dir) == IF dir = "Upstream" THEN wire[id].p2s ELSE wire[id].p2c

Ended(id) == Occurrences(log[id], "End") # {}

Aborted(id) == Occurrences(log[id], "Aborted") # {}

IsRunning(id) == \E n \in Slots : forwarders[n].state = "Running" /\ forwarders[n].id = id

RunningSlot(id) == CHOOSE n \in Slots : forwarders[n].state = "Running" /\ forwarders[n].id = id

CopyOf(id, dir) ==
    IF dir = "Upstream" THEN forwarders[RunningSlot(id)].upstream
    ELSE forwarders[RunningSlot(id)].downstream

\* the bytes of a Copying buffer that are still to be written: those not yet
\* sent, less a first byte that the sentinel check has yet to look at
Unsent(c) ==
    SubSeq(c.buffer,
           (IF c.fix_unix_read /\ c.free_space > 0 THEN 1 ELSE c.unsent_data) + 1,
           c.free_space)

\* What the opposite socket is owed in direction dir: the Data payloads, and
\* upstream between a TCP client and a Unix server one '0' before them,
\* between a Unix client and a TCP server all but their first byte.
Owed(id, dir) ==
    IF dir = "Upstream" /\ wire[id].sunix /\ ~wire[id].cunix
    THEN <<Zero>> \o DataCat(id, dir)
    ELSE IF dir = "Upstream" /\ wire[id].cunix /\ ~wire[id].sunix
    THEN Drop(DataCat(id, dir), 1)
    ELSE DataCat(id, dir)

(***************************************************************************)
(* C1 as the code has it.  In each direction the bytes written to the      *)
(* opposite socket are a prefix of the bytes owed to it: the Data payloads *)
(* of that direction in emission order, with the sentinel accounted for    *)
(* (one '0' more before them from a TCP client to a Unix server, their     *)
(* first byte less from a Unix client to a TCP server).  While the         *)
(* forwarder runs and has not reported ShutdownWrite, the bytes owed are   *)
(* exactly those written followed by those still in the buffer; once it    *)
(* has, and when the connection has ended, the bytes owed and not written  *)
(* are as many as the discard count of ShutdownWrite.                      *)
(***************************************************************************)
C1_WritesFollowData ==
    \A id \in Ids, dir \in Directions :
        LET owed == Owed(id, dir)
            out == Delivered(id, dir)
            shut == Occurrences(dlog[id][dir], "ShutdownWrite") # {}
        IN /\ IsPrefix(out, owed)
           /\ (shut \/ Ended(id)) =>
                  Len(owed) = Len(out) + Discards(dlog[id][dir])
           /\ (~shut /\ IsRunning(id)) => owed = out \o Unsent(CopyOf(id, dir))

\* C1 witness: a connection from a TCP client to a Unix server has ended
\* after two reads from the client, and the server got the '0' and both bytes.
C1_Witness ==
    \E id \in Ids :
        /\ Ended(id)
        /\ wire[id].sunix /\ ~wire[id].cunix
        /\ Cardinality(Occurrences(dlog[id]["Upstream"], "Data")) = 2
        /\ wire[id].p2s = <<Zero, 1, 2>>

\* C1 as the specification words it: in every direction of every connection
\* the bytes written are a prefix of the Data payloads, and of an ended
\* connection only the discard bytes are missing.
C1_Original ==
    \A id \in Ids, dir \in Directions :
        /\ IsPrefix(Delivered(id, dir), DataCat(id, dir))
        /\ Ended(id) =>
              Len(DataCat(id, dir)) = Len(Delivered(id, dir)) + Discards(dlog[id][dir])

(***************************************************************************)
(* C2.  For every ConnectionId, End or Aborted is the last event of the    *)
(* id: at most one of them is ever emitted for it, it is the last event of *)
(* the id, and from then on no step emits an event of the id, with or      *)
(* without a direction, whatever readiness events the poll batch still     *)
(* holds for the forwarder's tokens or for its vacated slot.               *)
(***************************************************************************)
Terminals(id) == Occurrences(log[id], "End") \cup Occurrences(log[id], "Aborted")

C2_TerminalIsLast ==
    /\ [](\A id \in Ids :
            /\ Cardinality(Terminals(id)) <= 1
            /\ Terminals(id) \subseteq {Len(log[id])})
    /\ [][\A id \in Ids :
            Terminals(id) # {} => log'[id] = log[id] /\ dlog'[id] = dlog[id]]_vars

\* C2 witness: a connection has had its terminal event and its slot is
\* vacant, while the batch being dispatched still holds an event for a
\* token of that slot.
C2_Witness ==
    \E id \in Ids :
        /\ Terminals(id) # {}
        /\ pc = "dispatch"
        /\ batch # <<>>
        /\ Head(batch) >= token_base
        /\ Head(batch) # TRIGGER_SHUTDOWN_TOKEN
        /\ forwarders[SlotOf(Head(batch))].state = "Vacant"
        /\ slab_free # <<>>
        /\ Head(slab_free) = SlotOf(Head(batch))

(***************************************************************************)
(* C3 as the code has it.  Incoming is the first event of an id and occurs *)
(* once.  Every Connected directly follows a Connecting of the id.  Every  *)
(* ConnectFailed directly follows the Connecting of the address it names,  *)
(* except the one that reports that the forward address did not resolve    *)
(* (an error, or no address): that one names the forward address, is       *)
(* immediate, directly follows Incoming with no Connecting before it and   *)
(* is directly followed by Aborted.                                        *)
(***************************************************************************)
FollowsConnecting(l, i) == i > 1 /\ l[i - 1].type = "Connecting"

ReportsUnresolved(l, i) ==
    /\ i = 2
    /\ l[i] = EvConnectFailed(0, TRUE)
    /\ Len(l) = 3
    /\ l[3].type = "Aborted"

C3_ConnectOrder ==
    \A id \in Ids :
        LET l == log[id] IN
        /\ l # <<>> => Occurrences(l, "Incoming") = {1}
        /\ \A i \in Occurrences(l, "Connected") : FollowsConnecting(l, i)
        /\ \A i \in Occurrences(l, "ConnectFailed") :
              \/ FollowsConnecting(l, i) /\ l[i - 1].arg = l[i].arg
              \/ ReportsUnresolved(l, i)

\* C3 witness: the first address failed after a wait, the second connected.
C3_Witness ==
    \E id \in Ids :
        Types(log[id]) = <<"Incoming", "Connecting", "ConnectFailed",
                           "Connecting", "Connected">>

\* C3 as the specification words it: Incoming is first, and a Connecting
\* comes before every Connected and every ConnectFailed.
C3_Original ==
    \A id \in Ids :
        LET l == log[id] IN
        /\ l # <<>> => l[1].type = "Incoming"
        /\ \A i \in Occurrences(l, "Connected") \cup Occurrences(l, "ConnectFailed") :
              \E j \in Occurrences(l, "Connecting") : j < i

(***************************************************************************)
(* C4.  The addresses announced by Connecting are the resolved addresses   *)
(* in list order from the first on, none of them twice.  While the         *)
(* connection is not established every Connecting but the last has its     *)
(* ConnectFailed, and Aborted is there exactly when every resolved address *)
(* has been announced and has its ConnectFailed (or nothing resolved); the *)
(* forwarder is then gone from the slab.  Once Connected is emitted no     *)
(* Connecting and no ConnectFailed follows it.                             *)
(***************************************************************************)
\* the events of l of the given type, in order
RECURSIVE Only(_, _)
Only(l, type) ==
    IF l = <<>> THEN <<>>
    ELSE (IF Head(l).type = type THEN <<Head(l)>> ELSE <<>>) \o Only(Tail(l), type)

Args(l) == [i \in DOMAIN l |-> l[i].arg]

HoldsForwarder(id) ==
    \E n \in Slots : forwarders[n].state # "Vacant" /\ forwarders[n].id = id

C4_AddressesInOrder ==
    \A id \in Ids :
        LET l == log[id]
            resolved == [i \in DOMAIN wire[id].resolved |-> wire[id].resolved[i].ix]
            tried == Args(Only(l, "Connecting"))
            failed == Args(Only(l, "ConnectFailed"))
        IN /\ IsPrefix(tried, resolved)
           /\ \A i \in Occurrences(l, "Connected") :
                 \A j \in Occurrences(l, "Connecting") \cup Occurrences(l, "ConnectFailed") :
                    j < i
           /\ (Occurrences(l, "Connected") = {} /\ resolved # <<>>) =>
                 /\ IsPrefix(failed, tried)
                 /\ Len(failed) >= Len(tried) - 1
                 /\ Aborted(id) <=> (Len(failed) = Len(resolved))
                 /\ Aborted(id) => ~HoldsForwarder(id)
                 /\ (l # <<>> /\ ~Aborted(id)) => HoldsForwarder(id)

\* C4 witness: two addresses resolved, the first failed at once, the second
\* after a wait, and only then the connection was aborted.
C4_Witness ==
    \E id \in Ids :
        /\ Len(wire[id].resolved) = 2
        /\ log[id] = <<EvIncoming, EvConnecting(1), EvConnectFailed(1, TRUE),
                       EvConnecting(2), EvConnectFailed(2, FALSE),
                       EvAborted("Connect")>>

(***************************************************************************)
(* C5.  ShutdownRead(D) is emitted at most once for a connection, and      *)
(* exactly once when read has returned 0 on the source socket of D.  The   *)
(* write half of the opposite socket is shut down exactly when can_write   *)
(* of D is cleared; unless ShutdownWrite(D) reported bytes as discarded,   *)
(* every byte owed to the opposite socket was written before that.  After  *)
(* the eof, whenever Running::process has returned with the buffer of D    *)
(* drained (unsent == free), the write half is shut down.                  *)
(***************************************************************************)
Source(dir) == IF dir = "Upstream" THEN "client" ELSE "server"

Opposite(dir) == IF dir = "Upstream" THEN "server" ELSE "client"

SawEof(id, dir) == (Source(dir) \o "_eof") \in wire[id].shut

WriteShut(id, dir) == (Opposite(dir) \o "_wr") \in wire[id].shut

C5_EofShutsDown ==
    \A id \in Ids, dir \in Directions :
        LET reads == Occurrences(dlog[id][dir], "ShutdownRead")
            discarded == Occurrences(dlog[id][dir], "ShutdownWrite") # {}
        IN /\ Cardinality(reads) <= 1
           /\ SawEof(id, dir) => Cardinality(reads) = 1
           /\ (WriteShut(id, dir) /\ ~discarded) =>
                 SawEof(id, dir) /\ Delivered(id, dir) = Owed(id, dir)
           /\ IsRunning(id) =>
                 LET c == CopyOf(id, dir) IN
                 /\ WriteShut(id, dir) <=> ~c.can_write
                 /\ ~c.can_write => c.unsent_data = c.free_space
                 /\ (SawEof(id, dir) /\ pc \in {"poll", "dispatch"}
                        /\ c.unsent_data = c.free_space) => WriteShut(id, dir)

\* C5 witness: the client closed after sending two bytes; both were
\* written to the server, then the server's write half was shut down, and
\* the connection still runs, waiting for the server.
C5_Witness ==
    \E id \in Ids :
        /\ IsRunning(id)
        /\ SawEof(id, "Upstream")
        /\ WriteShut(id, "Upstream")
        /\ Occurrences(dlog[id]["Upstream"], "ShutdownWrite") = {}
        /\ Len(DataCat(id, "Upstream")) >= 2
        /\ Delivered(id, "Upstream") = Owed(id, "Upstream")
        /\ pc = "poll"

(***************************************************************************)
(* C6 as the code has it.  A direction is closed when its ShutdownRead was *)
(* emitted and the write half of its opposite socket is shut down, which   *)
(* for a running forwarder is can_read == false and can_write == false of  *)
(* its copy.  End is emitted only for a connection with both directions    *)
(* closed, and its forwarder is then off the slab and off the poller.      *)
(* Whenever Running::process has returned, a forwarder still in the slab   *)
(* has a direction that is not closed and no End, and a connection with    *)
(* both directions closed has End, or Aborted if updating a registration   *)
(* failed.                                                                 *)
(***************************************************************************)
Closed(id, dir) ==
    /\ Occurrences(dlog[id][dir], "ShutdownRead") # {}
    /\ WriteShut(id, dir)

BothClosed(id) == \A dir \in Directions : Closed(id, dir)

Pumping == pc \in {"pump_down", "pump_up"}

C6_DoneWhenBothClosed ==
    /\ \A n \in Slots :
          forwarders[n].state = "Vacant" =>
              poller[ClientToken(n)] = {} /\ poller[ServerToken(n)] = {}
    /\ \A id \in Ids :
        /\ IsRunning(id) =>
              \A dir \in Directions :
                  LET c == CopyOf(id, dir) IN
                  Closed(id, dir) <=> (~c.can_read /\ ~c.can_write)
        /\ Ended(id) => BothClosed(id) /\ ~HoldsForwarder(id)
        /\ (IsRunning(id) /\ ~Pumping) => ~BothClosed(id) /\ ~Ended(id)
        /\ (BothClosed(id) /\ ~Pumping) =>
              /\ ~HoldsForwarder(id)
              /\ \/ Ended(id)
                 \/ log[id][Len(log[id])] = EvAborted("registering")

\* C6 witness: a connection over which the server sent bytes has ended with
\* both directions closed, and its slot is vacant.
C6_Witness ==
    \E id \in Ids :
        /\ log[id] # <<>>
        /\ log[id][Len(log[id])] = EvEnd
        /\ BothClosed(id)
        /\ wire[id].p2c # <<>>
        /\ \A n \in Slots : forwarders[n].state = "Vacant"

\* C6 as the specification words it: End is there exactly when, after a
\* pump pass, both directions are closed.
C6_Original ==
    \A id \in Ids :
        /\ Ended(id) => BothClosed(id)
        /\ (BothClosed(id) /\ ~Pumping) => Ended(id)

(***************************************************************************)
(* C7.  For a connection whose client is a Unix socket, whatever the       *)
(* server is: if the first byte read from the client is '0', it is not     *)
(* forwarded (what the server gets is a prefix of the client's bytes after *)
(* it, behind the one '0' a Unix server is sent); if it is another byte,   *)
(* nothing is ever written to the server and the connection is aborted by  *)
(* the time the handler returns.                                           *)
(***************************************************************************)
C7_FirstByteChecked ==
    \A id \in Ids :
        LET read == DataCat(id, "Upstream")
            out == Delivered(id, "Upstream")
        IN (wire[id].cunix /\ read # <<>>) =>
              IF read[1] = Zero
              THEN IsPrefix(out, (IF wire[id].sunix THEN <<Zero>> ELSE <<>>) \o Tail(read))
              ELSE /\ out = <<>>
                   /\ ~Pumping => Aborted(id)

(***************************************************************************)
(* C8.  When the server is a Unix socket, what is written to it is a       *)
(* prefix of one '0' followed by the client's stream without the client's  *)
(* own sentinel: for a TCP client the '0' and then the Data payloads (the  *)
(* '0' is in none of them), for a Unix client the '0' and then the Data    *)
(* payloads after their first byte.                                        *)
(***************************************************************************)
C8_SingleSentinel ==
    \A id \in Ids :
        LET read == DataCat(id, "Upstream") IN
        wire[id].sunix =>
            IsPrefix(Delivered(id, "Upstream"),
                     <<Zero>> \o (IF wire[id].cunix THEN Drop(read, 1) ELSE read))

(***************************************************************************)
(* C9.  Whatever state the analyzer starts in and however the stream is    *)
(* divided into chunks: the prefixes split_chunk has returned, followed by *)
(* what is left of the slice, are the bytes fed, in order; when            *)
(* split_chunk returns None the slice is empty; and that happens within    *)
(* 2 * len + 2 calls on a chunk of len bytes, so the loop over split_chunk *)
(* ends.                                                                   *)
(***************************************************************************)
C9_SplitDrainsChunk ==
    /\ consumed \o data = fed
    /\ returned = "None" => data = <<>> /\ consumed = fed
    /\ calls <= 2 * Len(chunk) + 2
    /\ returned \in {"Fed", "Some"} => calls < MaxCalls

\* C9 witness: a chunk of three bytes that follows a chunk of one byte was
\* split by four calls that returned a prefix and a fifth that returned None.
C9_Witness ==
    /\ returned = "None"
    /\ Len(chunk) = 3
    /\ Len(fed) = 4
    /\ calls = 5
    /\ consumed = fed

(***************************************************************************)
(* C10.  check_incomplete answers Ok exactly when the analyzer is in Head  *)
(* with the message-boundary flag set, in Unix0 or in Error.  In Head      *)
(* without the flag, in PartialHead and in Body, last or not, it answers   *)
(* an error that says where the peer stopped.                              *)
(***************************************************************************)
C10_CheckIncomplete ==
    incomplete # "-" =>
        /\ incomplete = "Ok" <=>
              \/ analyzer.kind = "Head" /\ analyzer.boundary
              \/ analyzer.kind \in {"Unix0", "Error"}
        /\ (analyzer.kind = "Head" /\ ~analyzer.boundary) =>
              incomplete = "on a block boundary but not on a message boundary"
        /\ analyzer.kind = "PartialHead" =>
              incomplete = "in the middle of the header block"
        /\ (analyzer.kind = "Body" /\ ~analyzer.last) =>
              incomplete = "in the middle of a block"
        /\ (analyzer.kind = "Body" /\ analyzer.last) =>
              incomplete = "in the middle of the last block of the message"

\* C10 witness: the header 01 30 announced a last block of 6144 bytes, the
\* peer stopped after the first of them, and check_incomplete said so.
C10_Witness ==
    /\ incomplete = "in the middle of the last block of the message"
    /\ analyzer = Body(6143, 6144, TRUE)
    /\ fed = <<1, Zero, 0>>

(***************************************************************************)
(* C11.  Once the two bytes b1, b2 of a header are consumed, in one chunk  *)
(* or one byte at a time through PartialHead, the analyzer has decoded     *)
(* n = b1 + 256 * b2, len = n >> 1 and last = n & 1: it is in Error when   *)
(* len > 8190, and otherwise in Body with len bytes still needed, len and  *)
(* last recorded (a block of no bytes is complete at once: Head with last  *)
(* as its boundary flag).  After the first byte alone it is in PartialHead *)
(* with that byte.                                                         *)
(***************************************************************************)
C11_HeaderDecoded ==
    /\ (Len(consumed) = 1 /\ Len(fed) >= 1) => analyzer = PartialHead(fed[1])
    /\ Len(consumed) = 2 =>
          LET n == fed[1] + 256 * fed[2]
              len == n \div 2
              last == n % 2 = 1
          IN IF len > 8190 THEN analyzer.kind = "Error"
             ELSE \/ /\ analyzer.kind = "Body"
                     /\ analyzer.still_needed = len
                     /\ analyzer.len = len
                     /\ analyzer.last = last
                  \/ /\ len = 0
                     /\ analyzer.kind = "Head"
                     /\ analyzer.boundary = last
                     /\ analyzer.was_body

\* C11 witness: the header FC 3F, the largest block allowed, came one byte
\* at a time and was decoded.
C11_Witness ==
    /\ fed = <<252, 63>>
    /\ chunk = <<63>>
    /\ consumed = fed
    /\ analyzer.kind = "Body"
    /\ analyzer.still_needed = 8190
    /\ ~analyzer.last


(***************************************************************************)
(* C12: one frame for each message                                         *)
(***************************************************************************)
\* the blocks a byte stream holds in full, in order: each with its body and
\* its last flag
RECURSIVE BlocksOf(_)
BlocksOf(s) ==
    IF Len(s) < 2 THEN <<>>
    ELSE LET n == s[1] + 256 * s[2]
             len == n \div 2
         IN IF len > MaxBlock \/ Len(s) < 2 + len THEN <<>>
            ELSE <<[body |-> SubSeq(s, 3, 2 + len), last |-> n % 2 = 1]>>
                 \o BlocksOf(Drop(s, 2 + len))

\* the messages a sequence of blocks holds in full: the bodies of the blocks
\* of each maximal run that ends in a last block, concatenated
RECURSIVE MessagesOf(_, _)
MessagesOf(blocks, acc) ==
    IF blocks = <<>> THEN <<>>
    ELSE IF Head(blocks).last
         THEN <<acc \o Head(blocks).body>> \o MessagesOf(Tail(blocks), <<>>)
         ELSE MessagesOf(Tail(blocks), acc \o Head(blocks).body)

\* the stream of blocks of a direction: what follows the '0' of a Unix client
BlockStream(s) ==
    IF ~unix_stream THEN s
    ELSE IF s # <<>> /\ s[1] = Zero THEN Tail(s) ELSE <<>>

\* C12: at the Messages level, whenever handle_data has returned, the frames
\* rendered so far are the messages that the bytes fed so far hold in full,
\* one frame for each message in order, each frame the bodies of the blocks
\* of its message concatenated without any header byte; the blocks of a
\* message whose last block is not complete are held in buf and make no frame
C12_FramePerMessage ==
    (level = "Messages" /\ returned \in {"-", "None"}) =>
        /\ frames = MessagesOf(BlocksOf(BlockStream(fed)), <<>>)
        /\ consumed = fed

\* a message of two blocks, the second split over two Data events, has made
\* one frame; the block of the next message has made none
C12_Witness ==
    /\ level = "Messages"
    /\ returned = "None"
    /\ fed = <<2, 0, 1, 3, 0, 2>>
    /\ chunk = <<2>>
    /\ frames = <<<<1, 2>>>>

(***************************************************************************)
(* What is observed of a captured flow                                     *)
(***************************************************************************)
\* the events of a connection of the capture, in order
EventsOf(id) ==
    LET es == SelectSeq(emitted, LAMBDA e : e.id = id)
    IN [i \in DOMAIN es |-> es[i].ev]

\* the payloads of the Data events of a direction of it, concatenated
DataOf(id, dir) == Payloads(SelectSeq(EventsOf(id), LAMBDA e : e.dir = dir))

DirOf(key) == IF key = ClientKey THEN "Upstream" ELSE "Downstream"

\* the bytes a peer sent: the payloads of its segments, concatenated
RECURSIVE Concatenated(_)
Concatenated(segments) ==
    IF segments = <<>> THEN <<>>
    ELSE Head(segments).payload \o Concatenated(Tail(segments))

PayloadOf(key) == Concatenated(SegmentsOf(key))

\* the connection of the flow that was tracked last
LastId == conn_ids - 1

(***************************************************************************)
(* C13: the Data events of a direction are its byte stream, in order and   *)
(* once                                                                    *)
(***************************************************************************)
\* C13: for each half of a tracked flow that was stored once, the payloads
\* of the Data events emitted for its direction, concatenated, are a prefix
\* of the bytes its peer sent, and are all of them once every segment of the
\* half has been handled since the half was stored, in whatever order and
\* however often.
C13_Reassembled ==
    \A k \in Keys :
        (/\ conn_ids > FirstId
         /\ Cardinality(Occurrences(EventsOf(LastId), "Connected")) <= 1) =>
            /\ IsPrefix(DataOf(LastId, DirOf(k)), PayloadOf(k))
            /\ seen[k] = DOMAIN SegmentsOf(k) =>
                  DataOf(LastId, DirOf(k)) = PayloadOf(k)

(***************************************************************************)
(* C14: a sequence number beyond the wrap of 2^32                          *)
(***************************************************************************)
\* the half of the client waits for 0xFFFFFFF0
WaitsBeforeWrap ==
    /\ ClientKey \in DOMAIN streams
    /\ streams[ClientKey].waiting_for = U32(65535, 65520)

\* the packet handled in this step is the segment of the client with sequence
\* number 0x00000005
HandlesAfterWrap ==
    /\ handled' = handled + 1
    /\ packet'.key = ClientKey
    /\ ~packet'.syn
    /\ packet'.seq = U32(0, 5)

\* the packet handled in this step is the segment of the client with sequence
\* number 0xFFFFFFF0, of 21 bytes
HandlesBeforeWrap ==
    /\ handled' = handled + 1
    /\ packet'.key = ClientKey
    /\ ~packet'.syn
    /\ packet'.seq = U32(65535, 65520)
    /\ Len(packet'.payload) = 21

\* C14 as stated: with waiting_for = 0xFFFFFFF0 the segment with sequence
\* number 0x00000005 carrying n bytes is accepted as the next packet, so
\* that the half waits for 5 + n whenever that segment was the last one
\* handled.
C14_Original ==
    (/\ capture = Wrapping
     /\ packet.key = ClientKey /\ ~packet.syn /\ packet.seq = U32(0, 5)
     /\ ClientKey \in DOMAIN streams) =>
        streams[ClientKey].waiting_for = wrapping_add(U32(0, 5), Len(packet.payload))

\* C14, amended: with waiting_for = 0xFFFFFFF0 the segment with sequence
\* number 0x00000005 is not taken for a packet of the past: it is 21 bytes
\* ahead, so it is stored in the waiting map, nothing is emitted and
\* waiting_for stays; when the 21 bytes from 0xFFFFFFF0 on are handled, they
\* are emitted and the stored segment right after them.
C14_AheadAcrossWrap ==
    [][/\ (WaitsBeforeWrap /\ HandlesAfterWrap) =>
             /\ emitted' = emitted
             /\ streams' = [streams EXCEPT ![ClientKey].waiting =
                               Insert(@, packet'.seq, packet'.payload, packet'.fin)]
       /\ (/\ WaitsBeforeWrap
           /\ U32(0, 5) \in DOMAIN streams[ClientKey].waiting
           /\ HandlesBeforeWrap) =>
             LET stored == streams[ClientKey].waiting[U32(0, 5)]
                 id == streams[ClientKey].id
             IN /\ Len(emitted') >= Len(emitted) + 2
                /\ emitted'[Len(emitted) + 1] = Of(id, EvData("Upstream", packet'.payload))
                /\ emitted'[Len(emitted) + 2] = Of(id, EvData("Upstream", stored.payload))
                /\ ClientKey \in DOMAIN streams' =>
                      streams'[ClientKey].waiting_for =
                          wrapping_add(U32(0, 5), Len(stored.payload))
      ]_vars

\* the segment with sequence number 5 was handled last and is stored, the
\* half still waits for 0xFFFFFFF0
C14_Witness ==
    /\ capture = Wrapping
    /\ packet.seq = U32(0, 5)
    /\ WaitsBeforeWrap
    /\ DOMAIN streams[ClientKey].waiting = {U32(0, 5)}
    /\ streams[ClientKey].waiting[U32(0, 5)].payload = <<77, 78>>

(***************************************************************************)
(* C15: FIN, ShutdownRead and End in the tracker                           *)
(***************************************************************************)
\* the events handed to the handler in this step
NewEvents == SubSeq(emitted', Len(emitted) + 1, Len(emitted'))

Among(events, e) == \E i \in DOMAIN events : events[i] = e

\* the half with this key is, after the step, finished or dropped with its
\* flow
FinishedAfter(k) == k \in DOMAIN streams' => streams'[k].finished

\* the step yields a segment with FIN of the half with key k: the packet
\* handled is the one waited for and carries FIN, or an entry with FIN
\* leaves the waiting map
YieldsFin(k) ==
    /\ k \in DOMAIN streams
    /\ handled' = handled + 1
    /\ packet'.key = k
    /\ ~packet'.syn
    /\ \/ packet'.fin /\ packet'.seq = streams[k].waiting_for
       \/ \E q \in DOMAIN streams[k].waiting :
             /\ streams[k].waiting[q].fin
             /\ k \in DOMAIN streams' => q \notin DOMAIN streams'[k].waiting

\* C15: a step that yields a segment with FIN, handled directly or taken
\* from the waiting map, leaves the half finished and emits ShutdownRead for
\* its direction, and ShutdownRead is only emitted for a half that is
\* finished.  End is emitted only by a step after which both halves are
\* finished, after ShutdownRead of both directions, and that step removes
\* both keys from the flow table.  While the flow table holds neither key,
\* a packet that is not a SYN without ACK emits nothing and stores nothing.
C15_FinThenEnd ==
    [][/\ \A k \in Keys :
             /\ YieldsFin(k) =>
                   /\ FinishedAfter(k)
                   /\ Among(NewEvents, Of(streams[k].id, EvShutdownRead(DirOf(k))))
             /\ (/\ k \in DOMAIN streams
                 /\ Among(NewEvents, Of(streams[k].id, EvShutdownRead(DirOf(k))))) =>
                   FinishedAfter(k)
       /\ \A i \in DOMAIN NewEvents :
             NewEvents[i].ev.type = "End" =>
                LET id == NewEvents[i].id
                    before == SubSeq(emitted', 1, Len(emitted) + i - 1)
                IN /\ Among(before, Of(id, EvShutdownRead("Upstream")))
                   /\ Among(before, Of(id, EvShutdownRead("Downstream")))
                   /\ i = Len(NewEvents)
                   /\ Keys \subseteq DOMAIN streams
                   /\ \A k \in Keys : streams[k].id = id
                   /\ \E k \in Keys : streams[k].finished
                   /\ DOMAIN streams' = {}
       /\ (DOMAIN streams = {} /\ handled' = handled + 1
           /\ ~(packet'.syn /\ ~packet'.ack)) =>
             /\ emitted' = emitted
             /\ streams' = streams
      ]_vars

\* a FIN taken from the waiting map has ended the flow: the last packet
\* handled carries no FIN, and ShutdownRead of its direction and End follow
\* its Data
C15_Witness ==
    /\ capture = Reordered
    /\ DOMAIN streams = {}
    /\ ~packet.fin
    /\ packet.payload = <<67, 68>>
    /\ Len(emitted) >= 4
    /\ emitted[Len(emitted)] = Of(FirstId, EvEnd)
    /\ emitted[Len(emitted) - 1] = Of(FirstId, EvShutdownRead("Upstream"))
    /\ emitted[Len(emitted) - 2] = Of(FirstId, EvData("Upstream", <<69, 70>>))
    /\ emitted[Len(emitted) - 3] = Of(FirstId, EvData("Upstream", <<67, 68>>))

(***************************************************************************)
(* C16: ConnectionIds come from a counter that starts at 10                *)
(***************************************************************************)
\* the ids that have been assigned: those with an Incoming event
Assigned == {id \in Ids : Occurrences(log[id], "Incoming") # {}}

\* C16: the ids of the Incoming events are 10, 11, 12, .. in the order of
\* the events: at every moment the ids assigned are those from 10 up to the
\* counter, each with one Incoming event, the first of its events; a step
\* that emits Incoming does so for the id the counter stands at, which had
\* no event before, and moves the counter up by one; no other step moves
\* the counter, also not the end of a connection or a failed connect.
C16_IdsIncrease ==
    /\ [](/\ ids >= FirstId
          /\ Assigned = {id \in Ids : id < ids}
          /\ \A id \in Ids :
                IF id < ids THEN Occurrences(log[id], "Incoming") = {1}
                ELSE log[id] = <<>>)
    /\ [][/\ ids' \in {ids, ids + 1}
          /\ \A id \in Ids :
                Occurrences(log'[id], "Incoming") # Occurrences(log[id], "Incoming") =>
                   /\ id = ids
                   /\ ids' = ids + 1
                   /\ log[id] = <<>>
          /\ ids' = ids + 1 => Occurrences(log'[ids], "Incoming") = {1}
         ]_vars

\* the second connection got id 11 after the first, id 10, had come to its
\* end and left its slot of the slab to it
C16_Witness ==
    /\ ids = FirstId + 2
    /\ Terminals(FirstId) # {}
    /\ Occurrences(log[FirstId + 1], "Incoming") = {1}
    /\ \E n \in Slots : forwarders[n].state # "Vacant" /\ forwarders[n].id = FirstId + 1
    /\ \A n \in Slots : forwarders[n].state # "Vacant" => n = 0

(***************************************************************************)
(* C17: the shutdown trigger ends Proxy::run                               *)
(***************************************************************************)
\* Proxy::run has returned: Ok(()), an Err, or by a panic
Returned == pc \in {"stopped", "failed", "panicked"}

\* a forwarder is in the slab and its connection has no End and no Aborted
InFlight ==
    \E n \in Slots :
        forwarders[n].state # "Vacant" /\ Terminals(forwarders[n].id) = {}

\* C17 as stated: after the shutdown trigger was invoked, Proxy::run
\* eventually returns Ok(()), whatever the state of listeners and forwarders.
C17_Original == (wake = "pending") ~> (pc = "stopped")

\* C17, amended: after the shutdown trigger was invoked, Proxy::run
\* eventually returns; it returns Ok(()) when it comes to the event of the
\* reserved token, and an Err when poll fails or an accept of a listener
\* whose event precedes that of the token fails first.  It returns Ok(())
\* only for the token, and that step emits no event and leaves every
\* forwarder and the poller as they are.
C17_ShutdownReturns ==
    /\ (wake = "pending") ~> Returned
    /\ [](pc = "stopped" => wake = "seen")
    /\ [][(pc' = "stopped" /\ pc # "stopped") =>
             /\ wake = "pending"
             /\ batch # <<>> /\ Head(batch) = TRIGGER_SHUTDOWN_TOKEN
             /\ UNCHANGED <<log, dlog, forwarders, poller>>
         ]_vars

\* run has returned Ok(()) with a connection in flight
C17_Witness == pc = "stopped" /\ wake = "seen" /\ InFlight

(***************************************************************************)
(* C18: the failure of one connection                                      *)
(***************************************************************************)
\* the step emits Aborted for the connection
Aborts(id) == Occurrences(log'[id], "Aborted") # Occurrences(log[id], "Aborted")

\* the tokens of the slot of a forwarder
TokensOf(n) == {ClientToken(n), ServerToken(n)}

\* C18: a step that emits Aborted for a connection, after its connect
\* failed on every address, a read or a write failed, or its Unix client
\* sent a wrong first byte, emits no event of another connection; the
\* forwarder of the connection, if it had one, leaves its slot and its two
\* tokens leave the poller; every other slot of the slab and every other
\* token of the poller, those of the listeners among them, stay as they
\* are; Proxy::run does not return: it goes on with the batch of events, or
\* with the accept loop when the connect failed at once.
C18_AbortedAlone ==
    [][\A id \in Ids :
          Aborts(id) =>
             /\ \A other \in Ids \ {id} :
                   log'[other] = log[other] /\ dlog'[other] = dlog[other]
             /\ \A n \in Slots :
                   IF forwarders[n].state # "Vacant" /\ forwarders[n].id = id
                   THEN /\ forwarders'[n] = Vacant
                        /\ \A t \in TokensOf(n) : poller'[t] = {}
                   ELSE /\ forwarders'[n] = forwarders[n]
                        /\ \A t \in TokensOf(n) : poller'[t] = poller[t]
             /\ \A t \in DOMAIN poller : t < token_base => poller'[t] = poller[t]
             /\ listeners' = listeners
             /\ token_base' = token_base
             /\ ids' \in {ids, ids + 1}
             /\ pc' \in {"dispatch", "accept"}
      ]_vars

\* the connection of a Unix client that sent a wrong first byte is Aborted
\* and off the slab, the connection accepted before it is running in its
\* slot
C18_Witness ==
    /\ Aborted(FirstId + 1)
    /\ log[FirstId + 1][Len(log[FirstId + 1])] = EvAborted("no0")
    /\ wire[FirstId + 1].cunix
    /\ Occurrences(log[FirstId + 1], "Connected") # {}
    /\ ~HoldsForwarder(FirstId + 1)
    /\ IsRunning(FirstId)
    /\ pc = "dispatch"

(***************************************************************************)
(* C19: the reactor at the bounded channel                                 *)
(***************************************************************************)
\* the reactor is inside send and the channel is full
BlockedOnFull ==
    /\ sending # 0
    /\ Len(channel) = ChannelCapacity
    /\ receiver = "alive"

\* C19: every send the reactor calls returns: the channel has room, or the
\* loop of run_proxy takes an event from the full channel and makes room,
\* or the receiver is gone and send returns at once.  The channel never
\* holds more than its capacity, and the reactor inside a send on the full
\* channel is never met by a receiver that waits for an event.
C19_SendCompletes ==
    /\ (sending # 0) ~> (sending = 0)
    /\ [](Len(channel) <= ChannelCapacity)
    /\ [](BlockedOnFull => channel # <<>>)
    /\ [][(sending # 0 /\ sending' = 0) =>
             \/ receiver = "alive" /\ channel' = Append(channel, sending)
             \/ receiver # "alive" /\ channel' = channel
         ]_vars

\* the reactor is inside send, the channel is full, and the renderer has
\* rendered events before
C19_Witness == BlockedOnFull /\ rendered # <<>>

(***************************************************************************)
(* C20: no Data after a shutdown of the direction                          *)
(***************************************************************************)
\* the step has read from the source of the direction: it emits Data, or
\* it sees the end of the stream, or the connection is Aborted for a read
Reads(id, dir) ==
    \/ Occurrences(dlog'[id][dir], "Data") # Occurrences(dlog[id][dir], "Data")
    \/ SawEof(id, dir)' /\ ~SawEof(id, dir)
    \/ /\ Len(log'[id]) = Len(log[id]) + 1
       /\ log'[id][Len(log'[id])] = EvAborted("reading")
       /\ pc = (IF dir = "Upstream" THEN "pump_up" ELSE "pump_down")

\* C20: among the events of a direction of a connection no Data follows a
\* ShutdownRead or a ShutdownWrite; a running forwarder has can_read false
\* in a direction once ShutdownRead was emitted for it and can_write false
\* once ShutdownWrite was emitted for it, and a step that reads from the
\* source of a direction starts with can_read and can_write of the
\* direction both true.
C20_NoDataAfterShutdown ==
    /\ [](\A id \in Ids, dir \in Directions :
            /\ \A i, j \in DOMAIN dlog[id][dir] :
                  (/\ i < j
                   /\ dlog[id][dir][i].type \in {"ShutdownRead", "ShutdownWrite"}) =>
                      dlog[id][dir][j].type # "Data"
            /\ IsRunning(id) =>
                  /\ Occurrences(dlog[id][dir], "ShutdownRead") # {} =>
                        ~CopyOf(id, dir).can_read
                  /\ Occurrences(dlog[id][dir], "ShutdownWrite") # {} =>
                        ~CopyOf(id, dir).can_write)
    /\ [][\A id \in Ids, dir \in Directions :
             Reads(id, dir) =>
                /\ IsRunning(id)
                /\ CopyOf(id, dir).can_read
                /\ CopyOf(id, dir).can_write
         ]_vars

\* the receiver of a direction has closed while its sender had more to
\* send: Data, ShutdownWrite and ShutdownRead were emitted, and what the
\* sender had left was not read
C20_Witness ==
    \E id \in Ids, dir \in Directions :
        /\ Occurrences(dlog[id][dir], "Data") # {}
        /\ Occurrences(dlog[id][dir], "ShutdownWrite") # {}
        /\ Occurrences(dlog[id][dir], "ShutdownRead") # {}
        /\ ~SawEof(id, dir)
        /\ Len(DataCat(id, dir)) < Len(IF dir = "Upstream" THEN wire[id].c2p
                                        ELSE wire[id].s2p)
        /\ Ended(id)

(***************************************************************************)
(* C21: the indices of a Copying buffer                                    *)
(***************************************************************************)
\* the Copying buffers of the forwarders that are running
Copyings ==
    UNION {{forwarders[n].upstream, forwarders[n].downstream} :
              n \in {m \in Slots : forwarders[m].state = "Running"}}

\* C21: between the passes of handle_one every Copying buffer of a running
\* forwarder has 0 <= unsent_data <= free_space <= BUFSIZE, has can_write
\* when unsent_data < free_space, and has both indices at 0 when
\* unsent_data = free_space; no assertion of handle_one fails.
C21_BufferIndices ==
    /\ pc # "panicked"
    /\ \A c \in Copyings :
          /\ 0 <= c.unsent_data
          /\ c.unsent_data <= c.free_space
          /\ c.free_space <= BUFSIZE
          /\ c.unsent_data < c.free_space => c.can_write
          /\ c.unsent_data = c.free_space => c.unsent_data = 0 /\ c.free_space = 0
          /\ Len(c.buffer) = c.free_space

\* a full buffer of which a part is written and a part is not, and in the
\* same run a buffer that was emptied after bytes went through it
C21_Witness ==
    /\ \E c \in Copyings :
          /\ 0 < c.unsent_data
          /\ c.unsent_data < c.free_space
          /\ c.free_space = BUFSIZE
    /\ \E id \in Ids :
          /\ IsRunning(id)
          /\ wire[id].p2s # <<>>

(***************************************************************************)
(* C22: a write that returns 0                                             *)
(***************************************************************************)
\* C22: the step that emits ShutdownWrite for a direction of a connection
\* finds the forwarder running with can_write and bytes to write, gives as
\* discard the number of bytes of the buffer that were not yet written,
\* writes nothing, and leaves the buffer collapsed (both indices 0),
\* can_write false and the write half of the sink shut down; ShutdownWrite
\* is emitted once, and after it nothing is written to the sink any more.
C22_DiscardOnWriteEof ==
    [][\A id \in Ids, dir \in Directions :
          LET before == Occurrences(dlog[id][dir], "ShutdownWrite")
              after == Occurrences(dlog'[id][dir], "ShutdownWrite")
          IN /\ before # {} =>
                   /\ after = before
                   /\ Delivered(id, dir)' = Delivered(id, dir)
             /\ after # before =>
                   /\ Cardinality(after) = 1
                   /\ IsRunning(id)
                   /\ CopyOf(id, dir).can_write
                   /\ \A i \in after :
                         /\ dlog'[id][dir][i].arg = Len(Unsent(CopyOf(id, dir)))
                         /\ dlog'[id][dir][i].arg > 0
                   /\ Delivered(id, dir)' = Delivered(id, dir)
                   /\ IsRunning(id)'
                   /\ ~CopyOf(id, dir)'.can_write
                   /\ CopyOf(id, dir)'.unsent_data = 0
                   /\ CopyOf(id, dir)'.free_space = 0
                   /\ CopyOf(id, dir)'.buffer = <<>>
                   /\ WriteShut(id, dir)'
      ]_vars

\* a part of what was read was written, the rest was discarded when the
\* sink closed, and the connection has ended with less written than read
C22_Witness ==
    \E id \in Ids, dir \in Directions :
        /\ Ended(id)
        /\ Occurrences(dlog[id][dir], "ShutdownWrite") # {}
        /\ Delivered(id, dir) # <<>>
        /\ Len(Delivered(id, dir)) + Discards(dlog[id][dir]) = Len(DataCat(id, dir))
        /\ Len(DataCat(id, dir)) >= 2
        /\ ~wire[id].sunix /\ ~wire[id].cunix

(***************************************************************************)
(* C23: the attempts of a connection                                       *)
(***************************************************************************)
\* the events a step adds to the log of an id
Added(id) == SubSeq(log'[id], Len(log[id]) + 1, Len(log'[id]))

\* the attempt announced last is pending: the forwarder of the id waits in
\* Connecting for the server socket of that address
Pending(id) ==
    /\ log[id] # <<>>
    /\ log[id][Len(log[id])].type = "Connecting"
    /\ \E n \in Slots :
          /\ forwarders[n].state = "Connecting"
          /\ forwarders[n].id = id
          /\ forwarders[n].server.name = log[id][Len(log[id])].arg

\* C23: every Connecting of an id is directly followed by one Connected or
\* by one ConnectFailed of the same address, and by no second one, or it is
\* the last event of the id while the forwarder waits for that attempt.  A
\* ConnectFailed emitted in the call that emitted its Connecting is
\* immediate; a step that starts with an event for an attempt that an
\* earlier call left pending is a call of Connecting::process, and its
\* ConnectFailed is not immediate.
C23_AttemptOutcome ==
    /\ [](\A id \in Ids :
            LET l == log[id] IN
            \A i \in Occurrences(l, "Connecting") :
               IF i = Len(l) THEN Pending(id)
               ELSE /\ l[i + 1].type \in {"Connected", "ConnectFailed"}
                    /\ l[i + 1].type = "ConnectFailed" => l[i + 1].arg = l[i].arg
                    /\ i + 2 <= Len(l) =>
                          l[i + 2].type \notin {"Connected", "ConnectFailed"})
    /\ [][\A id \in Ids :
             LET new == Added(id) IN
             /\ \A j \in DOMAIN new :
                   (/\ j > 1
                    /\ new[j].type = "ConnectFailed"
                    /\ new[j - 1].type = "Connecting") => new[j].imm
             /\ (new # <<>> /\ new[1].type \in {"Connected", "ConnectFailed"}) =>
                   /\ Pending(id)
                   /\ pc = "connecting"
                   /\ new[1].type = "ConnectFailed" => ~new[1].imm
         ]_vars

\* the first address failed in the connect call, the second on a later
\* wakeup, and with no address left the connection was aborted; in another
\* run the second address connected
C23_Witness ==
    \E id \in Ids :
        /\ Len(wire[id].resolved) = 2
        /\ log[id] = <<EvIncoming, EvConnecting(1), EvConnectFailed(1, TRUE),
                       EvConnecting(2), EvConnectFailed(2, FALSE),
                       EvAborted("Connect")>>
        /\ ~HoldsForwarder(id)
        /\ pc = "dispatch"

(***************************************************************************)
(* C24: the '0' for a Unix server                                          *)
(***************************************************************************)
\* the forwarder in slot n has become Running and no pass has touched its
\* sockets yet
Started(n) ==
    /\ forwarders[n].state = "Running"
    /\ pc = "pump_down"
    /\ cur.n = n
    /\ dlog[forwarders[n].id] = NoEvents
    /\ wire[forwarders[n].id].p2s = <<>>
    /\ wire[forwarders[n].id].p2c = <<>>
    /\ ~cur.progress

BlocksRead == BlocksOf(BlockStream(consumed))

\* the number of bytes of a sequence of blocks, headers included
RECURSIVE BlocksLen(_)
BlocksLen(blocks) ==
    IF blocks = <<>> THEN 0
    ELSE 2 + Len(Head(blocks).body) + BlocksLen(Tail(blocks))

\* C25: in Body 0 <= still_needed <= len <= 8190.  A step that stays in
\* Body finds fewer bytes than still_needed, no more than a u16 holds,
\* returns them all and takes their number off still_needed, len staying.
\* A step from Body to Head returns still_needed bytes and leaves the bytes
\* returned so far a sequence of whole blocks, the last of which has as
\* many body bytes as the len of the Body.
C25_BodyLength ==
    /\ [](analyzer.kind = "Body" =>
            /\ 0 <= analyzer.still_needed
            /\ analyzer.still_needed <= analyzer.len
            /\ analyzer.len <= MaxBlock)
    /\ [][(analyzer.kind = "Body" /\ analyzer'.kind = "Body" /\ calls' = calls + 1) =>
             /\ Len(data) < analyzer.still_needed
             /\ Len(data) <= U16Max
             /\ data' = <<>>
             /\ consumed' = consumed \o data
             /\ analyzer'.still_needed = analyzer.still_needed - Len(data)
             /\ analyzer'.len = analyzer.len
             /\ analyzer'.last = analyzer.last
         ]_vars
    /\ [][(analyzer.kind = "Body" /\ analyzer'.kind = "Head") =>
             /\ Len(consumed') = Len(consumed) + analyzer.still_needed
             /\ BlocksRead' # <<>>
             /\ BlocksLen(BlocksRead') = Len(BlockStream(consumed'))
             /\ Len(BlocksRead'[Len(BlocksRead')].body) = analyzer.len
             /\ BlocksRead'[Len(BlocksRead')].last = analyzer.last
         ]_vars

\* a block of two bytes came in several Data events, its body cut in two,
\* and the analyzer is back in Head
C25_Witness ==
    /\ fed = <<4, 0, 1, 5>>
    /\ consumed = fed
    /\ chunk = <<5>>
    /\ analyzer = HeadState(FALSE, TRUE)
    /\ direction = "Downstream"

(***************************************************************************)
(* C26: the block without bytes that is not the last of its message        *)
(***************************************************************************)
\* the step has consumed the last byte of a header of value n
ConsumesHeader(n) ==
    /\ \/ analyzer.kind = "Head" /\ Len(data) >= 2
       \/ analyzer.kind = "PartialHead" /\ Len(data) >= 1
    /\ calls' = calls + 1
    /\ Len(consumed') >= 2
    /\ consumed'[Len(consumed') - 1] + 256 * consumed'[Len(consumed')] = n

\* C26: the step that consumes a header with len = 0 and last_flag = 0
\* leaves the analyzer in Head, at a block boundary, with was_body false,
\* and no later step of that block makes was_body true.
C26_NoOpBlock ==
    [][/\ ConsumesHeader(0) =>
             /\ was_block_boundary(analyzer')
             /\ ~was_body(analyzer')
       /\ (analyzer.kind = "Body" /\ analyzer.len = 0 /\ ~analyzer.last) =>
             ~was_body(analyzer')
    ]_vars

(***************************************************************************)
(* C27: block boundaries and message boundaries                            *)
(***************************************************************************)
\* C27: was_block_boundary is true exactly in Head, and in Head the bytes
\* returned so far, after the '0' of a Unix client, are whole blocks.
\* was_message_boundary is true exactly when the analyzer is in Head and
\* either no block was read or the last block read had its last flag set.
C27_Boundaries ==
    /\ was_block_boundary(analyzer) <=> analyzer.kind = "Head"
    /\ analyzer.kind = "Head" =>
          /\ BlocksLen(BlocksRead) = Len(BlockStream(consumed))
          /\ unix_stream => consumed # <<>> /\ consumed[1] = Zero
    /\ was_message_boundary(analyzer) <=>
          /\ analyzer.kind = "Head"
          /\ \/ BlocksRead = <<>>
             \/ BlocksRead[Len(BlocksRead)].last

\* a block that is not the last of its message and a block that is have
\* been read, and the analyzer is at a message boundary
C27_Witness ==
    /\ consumed = <<0, 0, 1, 0>>
    /\ analyzer = HeadState(TRUE, TRUE)
    /\ Len(BlocksRead) = 2
    /\ returned = "None"

(***************************************************************************)
(* C28: was_head                                                           *)
(***************************************************************************)
\* a split_chunk call that returns a slice
Splits == calls' = calls + 1 /\ returned' = "Some"

\* the call consumes a whole header, or the second byte of a header of
\* which an earlier call consumed the first, and the header is accepted
ProducesHeader ==
    /\ \/ analyzer.kind = "Head" /\ Len(data) >= 2
       \/ analyzer.kind = "PartialHead" /\ Len(data) >= 1
    /\ analyzer'.kind # "Error"

\* C28 as the specification words it: after a split_chunk step was_head is
\* true exactly when the step produced a header, whole or its final half.
C28_Original ==
    [][Splits => (was_head(analyzer') <=> ProducesHeader)]_vars

\* C28, amended: after a split_chunk step was_head is true exactly when the
\* step consumed header bytes and the header is not refused: a whole
\* header, the second byte of a split header, and also the first byte of a
\* header whose second byte is still to come (PartialHead).  It is false
\* after a step on a body, on the '0' of a Unix client, in Error, and after
\* a header with len above 8190.  was_head and was_body are never both true.
C28_WasHead ==
    /\ [][Splits =>
            (was_head(analyzer') <=>
                /\ analyzer.kind \in {"Head", "PartialHead"}
                /\ analyzer'.kind # "Error")
         ]_vars
    /\ [](~(was_head(analyzer) /\ was_body(analyzer)))

\* the first byte of a header ended a chunk: the analyzer is in PartialHead
\* after a block, and was_head is true
C28_Witness ==
    /\ analyzer.kind = "PartialHead"
    /\ returned = "Some"
    /\ data = <<>>
    /\ Len(consumed) >= 3
    /\ was_head(analyzer)
    /\ ~was_body(analyzer)

(***************************************************************************)
(* C29: Unix0 and Error                                                    *)
(***************************************************************************)
\* C29: before its first byte the analyzer of an accumulator is in Unix0 if
\* it is the upstream one of a connection whose client is a Unix socket,
\* and in Head at a message boundary otherwise; no analyzer is in Unix0
\* later.  The step on the first byte in Unix0 returns that byte and leads
\* to Head at a message boundary if the byte is '0' and to Error if not.
\* Every step in Error stays in Error.
C29_Unix0 ==
    /\ [](consumed = <<>> =>
             analyzer = IF direction = "Upstream" /\ peer_unix
                        THEN Unix0 ELSE HeadState(TRUE, FALSE))
    /\ [](analyzer.kind = "Unix0" => consumed = <<>>)
    /\ [][(analyzer.kind = "Unix0" /\ Splits) =>
             /\ consumed' = <<data[1]>>
             /\ analyzer' = IF data[1] = Zero THEN HeadState(TRUE, FALSE) ELSE Error
             /\ was_message_boundary(analyzer') <=> data[1] = Zero
         ]_vars
    /\ [][analyzer.kind = "Error" => analyzer'.kind = "Error"]_vars

\* a Unix client started with another byte than '0': its upstream analyzer
\* went to Error on it and has stayed there over the bytes that followed
C29_Witness ==
    /\ direction = "Upstream"
    /\ peer_unix
    /\ analyzer = Error
    /\ Len(consumed) = MaxRawStream
    /\ consumed[1] # Zero
    /\ Len(chunk) = 1
    /\ returned = "None"

(***************************************************************************)
(* C30: segments behind and ahead of waiting_for                           *)
(***************************************************************************)
\* the sequence numbers of a capture lie this close to each other
MaxDistance == 32

\* a is n positions before b on the circle of sequence numbers, for some n
\* from 1 to MaxDistance: b - a modulo 2^32 is small and positive
Before(a, b) == \E n \in 1 .. MaxDistance : wrapping_add(a, n) = b

\* handle is called with a packet without SYN of a tracked half
HandlesTracked ==
    /\ handled' = handled + 1
    /\ ~packet'.syn
    /\ packet'.key \in DOMAIN streams

\* C30: a segment of a tracked half whose sequence number is behind
\* waiting_for (seq - waiting_for modulo 2^32 is negative as a signed 32-bit
\* value, which for the segments of a capture means that seq lies a few
\* positions before waiting_for on the circle) is dropped: no event is
\* emitted and waiting_for, the waiting map and the finished flag of the
\* half stay as they are, as does every other half.  A segment that is
\* ahead emits nothing either, leaves waiting_for and finished alone and is
\* stored in the waiting map under its sequence number.  Every segment that
\* is not the awaited one is one or the other.
C30_BehindDropped ==
    [][HandlesTracked =>
          LET st == streams[packet'.key] IN
          /\ Before(packet'.seq, st.waiting_for) =>
                /\ emitted' = emitted
                /\ streams' = streams
          /\ Before(st.waiting_for, packet'.seq) =>
                /\ emitted' = emitted
                /\ DOMAIN streams' = DOMAIN streams
                /\ \A k \in DOMAIN streams \ {packet'.key} : streams'[k] = streams[k]
                /\ streams'[packet'.key].waiting_for = st.waiting_for
                /\ streams'[packet'.key].finished = st.finished
                /\ DOMAIN streams'[packet'.key].waiting =
                      DOMAIN st.waiting \cup {packet'.seq}
                /\ streams'[packet'.key].waiting[packet'.seq] =
                      [payload |-> packet'.payload, fin |-> packet'.fin]
                /\ \A q \in DOMAIN st.waiting \ {packet'.seq} :
                      streams'[packet'.key].waiting[q] = st.waiting[q]
          /\ \/ packet'.seq = st.waiting_for
             \/ Before(packet'.seq, st.waiting_for)
             \/ Before(st.waiting_for, packet'.seq)
      ]_vars

\* the 21 bytes from 0xFFFFFFF0 on were handled a second time, last of all
\* packets, when the half waited for 0x00000005 already: the last event is
\* still the byte of the server that was handled before them, and the
\* waiting map is empty
C30_Witness ==
    /\ capture = Wrapping
    /\ packet.key = ClientKey
    /\ packet.seq = U32(65535, 65520)
    /\ Len(packet.payload) = 21
    /\ ClientKey \in DOMAIN streams
    /\ streams[ClientKey].waiting_for = U32(0, 5)
    /\ DOMAIN streams[ClientKey].waiting = {}
    /\ ~streams[ClientKey].finished
    /\ Len(emitted) >= 2
    /\ emitted[Len(emitted)].ev = EvData("Downstream", <<48>>)
    /\ \E i \in 1 .. Len(emitted) - 1 : emitted[i].ev = EvData("Upstream", packet.payload)

(***************************************************************************)
(* C31: SYN without ACK in the tracker                                     *)
(***************************************************************************)
\* the sequence number after this one, 0 after 0xFFFFFFFF
NextSeq(seq) ==
    IF seq[2] < Half - 1 THEN U32(seq[1], seq[2] + 1)
    ELSE IF seq[1] < Half - 1 THEN U32(seq[1] + 1, 0)
    ELSE U32(0, 0)

\* handle is called with a SYN without ACK
HandlesSyn ==
    /\ handled' = handled + 1
    /\ packet'.syn
    /\ ~packet'.ack

\* the key of the packet, or the key of the other direction, is in the flow
\* table
Known(key) ==
    \/ key \in DOMAIN streams
    \/ Key(key.dest, key.src) \in DOMAIN streams

\* C31: a SYN without ACK of a flow of which no direction is in the flow
\* table takes an id that no event and no half carried before, stores under
\* the key of the packet an upstream half that waits for seq + 1 modulo
\* 2^32, with nothing buffered and not finished, and emits one event,
\* Incoming with that id, local = the destination and peer = the source of
\* the packet.  A SYN without ACK of a flow that is known in either
\* direction leaves the flow table, the id counter and the events alone.
C31_Syn ==
    [][HandlesSyn =>
          IF Known(packet'.key)
          THEN /\ streams' = streams
               /\ conn_ids' = conn_ids
               /\ emitted' = emitted
          ELSE LET id == streams'[packet'.key].id IN
               /\ DOMAIN streams' = DOMAIN streams \cup {packet'.key}
               /\ \A k \in DOMAIN streams : streams'[k] = streams[k] /\ streams[k].id # id
               /\ \A i \in 1 .. Len(emitted) : emitted[i].id # id
               /\ conn_ids' # conn_ids
               /\ streams'[packet'.key] =
                     [id |-> id, dir |-> "Upstream",
                      waiting_for |-> NextSeq(packet'.seq),
                      waiting |-> NoWaiting, finished |-> FALSE]
               /\ Len(emitted') = Len(emitted) + 1
               /\ SubSeq(emitted', 1, Len(emitted)) = emitted
               /\ emitted'[Len(emitted')] =
                     [id |-> id, ev |-> EvIncoming,
                      local |-> packet'.key.dest, peer |-> packet'.key.src]
      ]_vars

\* the SYN of the client with sequence number 0xFFFFFFFF was handled, then
\* the SYN without ACK of the server: there is one Incoming, from the client
\* to the server, one half, which waits for 0, and one id was taken
C31_Witness ==
    /\ capture = Crossed
    /\ handled = 2
    /\ packet = Packet(ServerKey, TRUE, FALSE, FALSE, U32(0, 19), <<>>, 0)
    /\ DOMAIN streams = {ClientKey}
    /\ streams[ClientKey].waiting_for = U32(0, 0)
    /\ streams[ClientKey].dir = "Upstream"
    /\ conn_ids = FirstId + 1
    /\ Len(emitted) = 1
    /\ emitted[1].ev = EvIncoming
    /\ emitted[1].local = "server"
    /\ emitted[1].peer = "client"

(***************************************************************************)
(* C32: SYN with ACK, and segments of unknown flows                        *)
(***************************************************************************)
\* handle is called with a SYN with ACK
HandlesSynAck ==
    /\ handled' = handled + 1
    /\ packet'.syn
    /\ packet'.ack

\* the key of the other direction of the packet handled in this step
Flipped == Key(packet'.key.dest, packet'.key.src)

\* the Incoming events emitted so far for the flow from src to dest
IncomingOf(src, dest) ==
    {i \in 1 .. Len(emitted) :
        /\ emitted[i].ev = EvIncoming
        /\ emitted[i].peer = src
        /\ emitted[i].local = dest}

\* C32: a SYN with ACK whose flipped key holds an upstream half stores under
\* its own key a downstream half that waits for seq + 1 modulo 2^32, leaves
\* every other half alone and emits one event, Connected, with the id of
\* the last Incoming of the flow of the upstream half, which is the id of
\* that half.  A SYN with ACK whose flipped key is not in the flow table,
\* and a segment without SYN whose key is not in the flow table, leave the
\* flow table, the id counter and the events as they are.
C32_SynAck ==
    [][/\ (HandlesSynAck /\ Flipped \in DOMAIN streams
                         /\ streams[Flipped].dir = "Upstream") =>
             LET id == streams[Flipped].id
                 incoming == IncomingOf(Flipped.src, Flipped.dest)
             IN /\ incoming # {}
                /\ \A i \in incoming : \E j \in incoming : j >= i /\ emitted[j].id = id
                /\ DOMAIN streams' = DOMAIN streams \cup {packet'.key}
                /\ \A k \in DOMAIN streams \ {packet'.key} : streams'[k] = streams[k]
                /\ streams'[packet'.key].id = id
                /\ streams'[packet'.key].dir = "Downstream"
                /\ streams'[packet'.key].waiting_for = NextSeq(packet'.seq)
                /\ conn_ids' = conn_ids
                /\ Len(emitted') = Len(emitted) + 1
                /\ SubSeq(emitted', 1, Len(emitted)) = emitted
                /\ emitted'[Len(emitted')].ev = EvConnected
                /\ emitted'[Len(emitted')].id = id
       /\ (HandlesSynAck /\ Flipped \notin DOMAIN streams) =>
             /\ streams' = streams
             /\ conn_ids' = conn_ids
             /\ emitted' = emitted
       /\ (handled' = handled + 1 /\ ~packet'.syn
                                  /\ packet'.key \notin DOMAIN streams) =>
             /\ streams' = streams
             /\ conn_ids' = conn_ids
             /\ emitted' = emitted
      ]_vars

\* of three packets one was ignored; the last is the SYN with ACK of the
\* server with sequence number 0xFFFFFFFF: the downstream half waits for 0
\* and Connected carries the id of Incoming
C32_Witness ==
    /\ capture = Wrapping
    /\ handled = 3
    /\ packet = Packet(ServerKey, TRUE, TRUE, FALSE, U32(65535, 65535), <<>>, 0)
    /\ DOMAIN streams = Keys
    /\ streams[ServerKey].dir = "Downstream"
    /\ streams[ServerKey].waiting_for = U32(0, 0)
    /\ streams[ServerKey].id = streams[ClientKey].id
    /\ Len(emitted) = 2
    /\ emitted[1].ev = EvIncoming
    /\ emitted[2].ev = EvConnected
    /\ emitted[2].id = emitted[1].id
    /\ emitted[2].peer = "server"

(***************************************************************************)
(* C33: the owners of the poller tokens                                    *)
(***************************************************************************)
\* the slots of the slab that hold a forwarder
Live == {k \in Slots : forwarders[k].state # "Vacant"}

\* the tokens the forwarder in slot k was made with
Owned(k) == {forwarders[k].client.token, forwarders[k].server.token}

\* the tokens of the listeners
ListenerTokens == 0 .. Len(listeners) - 1

\* C33: with L listeners, listener i is on the poller with token i, below
\* L, and token_base is L.  The forwarder in slot k of the slab has the
\* tokens L + 2k for its client and L + 2k + 1 for its server; they are no
\* listener token and not the shutdown token; no two forwarders of the slab
\* share a token; an interest is installed only for a listener token or for
\* a token of a forwarder of the slab.  When run dispatches the event of a
\* token that a forwarder of the slab owns, it is that forwarder that
\* handles it, and an event handled by a forwarder is one of a token it
\* owns.
C33_Tokens ==
    /\ [](/\ token_base = Len(listeners)
          /\ \A t \in ListenerTokens : poller[t] = {"R"}
          /\ TRIGGER_SHUTDOWN_TOKEN \notin ListenerTokens
          /\ \A k \in Live :
                /\ forwarders[k].client.token = Len(listeners) + 2 * k
                /\ forwarders[k].server.token = Len(listeners) + 2 * k + 1
                /\ Owned(k) \cap ListenerTokens = {}
                /\ TRIGGER_SHUTDOWN_TOKEN \notin Owned(k)
                /\ \A m \in Live : m # k => Owned(m) \cap Owned(k) = {}
          /\ \A t \in DOMAIN poller :
                poller[t] # {} => t \in ListenerTokens \/ \E k \in Live : t \in Owned(k))
    /\ [][(pc = "dispatch" /\ batch # <<>> /\ batch' = Tail(batch)) =>
             /\ \A k \in Live :
                   Head(batch) \in Owned(k) =>
                      /\ pc' \in {"connecting", "pump_down"}
                      /\ cur'.n = k
             /\ pc' \in {"connecting", "pump_down"} =>
                   /\ cur'.n \in Live
                   /\ Head(batch) \in Owned(cur'.n)
         ]_vars

\* both slots of the slab hold a forwarder and the one in slot 1 handles an
\* event: the batch held one of its tokens, 3 or 4 with the one listener
C33_Witness ==
    /\ Live = {0, 1}
    /\ Len(listeners) = 1
    /\ Owned(0) = {1, 2}
    /\ Owned(1) = {3, 4}
    /\ pc = "connecting"
    /\ cur.n = 1

(***************************************************************************)
(* C34: WouldBlock and the registration of interest                        *)
(***************************************************************************)
\* every read and every write of a pass over Copying c that answers
\* WouldBlock leaves the pass without an error and asks for the interest
WouldBlockAsks(c, dir, avail) ==
    LET fixed == PassFixUnix(PassAsserts(PassStart(c))) IN
    \A w \in WriteResults(fixed) :
        LET m == PassEmpty(PassWrite(fixed, dir, w), dir) IN
        /\ w = IoWouldBlock => m.status = "ok" /\ m.needW /\ m.copy = fixed.copy
        /\ \A r \in ReadResults(m, avail) :
              r = IoWouldBlock =>
                 LET o == PassRead(m, dir, r, avail) IN
                 o.status = "ok" /\ o.needR /\ o.copy = m.copy

\* Running::process returns Continue for the forwarder in slot cur.n
Continues ==
    /\ pc = "pump_up"
    /\ pc' = "dispatch"
    /\ forwarders'[cur.n].state = "Running"

\* what update_registration did for a source: before it the poller had
\* installed for it, after it the source is r
Registers(installed, r) ==
    /\ r.registered = r.needed
    /\ r.call = "register" => installed = {} /\ r.needed # {}
    /\ r.call = "reregister" => installed # {} /\ r.needed # {} /\ installed # r.needed
    /\ r.call = "deregister" => installed # {} /\ r.needed = {}
    /\ r.call = "none" => installed = r.needed

\* C34: a read or a write that answers WouldBlock does not end the pass
\* with an error: the pass goes on with the buffer as it was and asks for
\* the interest, READABLE on the source of the direction for a read,
\* WRITABLE on its sink for a write, and the interest is asked for only
\* when that read or write can be made.  What the poller has installed for
\* the sockets of a forwarder is what their registered fields say.  When
\* Running::process returns Continue, update_registration has made what is
\* installed for each socket equal to what the last pass needs: register
\* was called only for a source with nothing installed, reregister only for
\* a source with something else installed, deregister only for a source
\* with something installed, and registered equals needed afterwards.
C34_Registration ==
    /\ [](\A k \in Slots :
            forwarders[k].state # "Vacant" =>
               /\ poller[forwarders[k].client.token] = forwarders[k].client.registered
               /\ poller[forwarders[k].server.token] = forwarders[k].server.registered)
    /\ [](pc \in {"pump_down", "pump_up"} =>
            LET f == forwarders[cur.n] IN
            /\ WouldBlockAsks(f.downstream, "Downstream", wire[f.id].s2p)
            /\ WouldBlockAsks(f.upstream, "Upstream", wire[f.id].c2p))
    /\ [][(pc = "pump_down" /\ pc' = "pump_up") =>
             LET g == forwarders'[cur.n]
                 c == g.downstream
             IN /\ g.client.needed \subseteq {"W"}
                /\ g.server.needed \subseteq {"R"}
                /\ "W" \in g.client.needed => c.unsent_data < c.free_space /\ c.can_write
                /\ "R" \in g.server.needed =>
                      c.can_read /\ c.can_write /\ c.free_space < BUFSIZE
         ]_vars
    /\ [][Continues =>
             LET f == forwarders[cur.n]
                 g == forwarders'[cur.n]
                 c == g.upstream
             IN /\ f.client.needed \subseteq g.client.needed
                /\ f.server.needed \subseteq g.server.needed
                /\ g.client.needed \ f.client.needed \subseteq {"R"}
                /\ g.server.needed \ f.server.needed \subseteq {"W"}
                /\ "W" \in g.server.needed => c.unsent_data < c.free_space /\ c.can_write
                /\ "R" \in g.client.needed =>
                      c.can_read /\ c.can_write /\ c.free_space < BUFSIZE
                /\ Registers(poller[g.client.token], g.client)
                /\ Registers(poller[g.server.token], g.server)
                /\ poller'[g.client.token] = g.client.needed
                /\ poller'[g.server.token] = g.server.needed
         ]_vars

\* after a wakeup of a running forwarder the client is registered for
\* READABLE and WRITABLE by a reregister call, and the server for READABLE
C34_Witness ==
    \E k \in Slots :
        /\ forwarders[k].state = "Running"
        /\ pc = "dispatch"
        /\ forwarders[k].client.call = "reregister"
        /\ forwarders[k].client.registered = {"R", "W"}
        /\ poller[forwarders[k].client.token] = {"R", "W"}
        /\ forwarders[k].server.registered = {"R"}

(***************************************************************************)
(* C35: a forwarder that goes on has a wakeup to come                      *)
(***************************************************************************)
\* the reactor is between two calls of handle_event
AtRest == pc \in {"poll", "dispatch"}

\* the interest installed for a socket
InterestOf(r) == poller[r.token]

\* direction D of forwarder f, with the socket it reads and the socket it
\* writes, waits for what it can still do
Awaits(c, source, sink) ==
    /\ c.unsent_data < c.free_space => "W" \in InterestOf(sink)
    /\ (c.can_read /\ c.can_write /\ c.free_space < BUFSIZE) =>
          "R" \in InterestOf(source)

\* READABLE and WRITABLE are installed for a forwarder only for a read or a
\* write that one of its directions can make
AsksOnly(f) ==
    /\ "R" \in InterestOf(f.server) =>
          f.downstream.can_read /\ f.downstream.free_space < BUFSIZE
    /\ "R" \in InterestOf(f.client) =>
          f.upstream.can_read /\ f.upstream.free_space < BUFSIZE
    /\ "W" \in InterestOf(f.client) =>
          f.downstream.unsent_data < f.downstream.free_space
    /\ "W" \in InterestOf(f.server) =>
          f.upstream.unsent_data < f.upstream.free_space

\* handle_event is running for the forwarder in slot k
Handled(k) == pc \in {"pump_down", "pump_up"} /\ cur.n = k

AddedDir(id, dir) == SubSeq(dlog'[id][dir], Len(dlog[id][dir]) + 1, Len(dlog'[id][dir]))

\* the proxy has shut down the read half of the source of the direction
SourceShut(id, dir) ==
    IF dir = "Downstream" THEN "server_rd" \in wire[id].shut
    ELSE "client_rd" \in wire[id].shut

\* C36: between the passes of handle_one no direction of a running
\* forwarder has can_read without can_write.  The pass that emits
\* ShutdownWrite for a direction whose sender had not closed emits
\* ShutdownRead for that direction as the next event, shuts down the read
\* half of the source and leaves the direction with can_read false; when
\* the sender had closed, ShutdownWrite is the last event of the direction.
\* ShutdownWrite is emitted at most once for a direction of a connection.
C36_ReceiverClosesFirst ==
    /\ [](/\ \A c \in Copyings : ~(c.can_read /\ ~c.can_write)
          /\ \A id \in Ids, dir \in Directions :
                Cardinality(Occurrences(dlog[id][dir], "ShutdownWrite")) <= 1)
    /\ [][\A id \in Ids, dir \in Directions :
             LET new == AddedDir(id, dir) IN
             \A i \in Occurrences(new, "ShutdownWrite") :
                /\ IsRunning(id)
                /\ IF CopyOf(id, dir).can_read
                   THEN /\ i + 1 = Len(new)
                        /\ new[i + 1] = EvShutdownRead(dir)
                        /\ SourceShut(id, dir)'
                   ELSE i = Len(new)
                /\ IsRunning(id)'
                /\ ~CopyOf(id, dir)'.can_read
                /\ ~CopyOf(id, dir)'.can_write
         ]_vars

\* the client stopped taking the bytes of the server while the server went
\* on sending: ShutdownWrite and then ShutdownRead are the last events of
\* the downstream direction, the read half of the server socket is shut
\* down, and the server has not closed
C36_Witness ==
    \E id \in Ids :
        LET l == dlog[id]["Downstream"] IN
        /\ Len(l) >= 3
        /\ l[Len(l) - 1].type = "ShutdownWrite"
        /\ l[Len(l)] = EvShutdownRead("Downstream")
        /\ Occurrences(l, "ShutdownRead") = {Len(l)}
        /\ "server_rd" \in wire[id].shut
        /\ "server_eof" \notin wire[id].shut

(***************************************************************************)
(* C37: ShutdownRead and End of the tracker occur once                     *)
(***************************************************************************)
\* the places in the events of the tracker where this event of this id is
EmittedAt(id, ev) == {i \in 1 .. Len(emitted) : emitted[i].id = id /\ emitted[i].ev = ev}

\* the ids of the events of the tracker
EmittedIds == {emitted[i].id : i \in 1 .. Len(emitted)}

\* C37: among the events of the tracker there is at most one ShutdownRead
\* for every connection and direction and at most one End for every
\* connection, whatever segments are handled, a FIN that is handled again
\* and an empty segment with the awaited sequence number that comes after
\* the half has finished among them.
C37_ShutdownOnce ==
    \A id \in EmittedIds :
        /\ Cardinality(EmittedAt(id, EvEnd)) <= 1
        /\ \A dir \in Directions :
              Cardinality(EmittedAt(id, EvShutdownRead(dir))) <= 1

(***************************************************************************)
(* C38: Connected of the tracker occurs once                               *)
(***************************************************************************)
\* C38: among the events of the tracker there is at most one Connected for
\* every connection; a SYN with ACK for a flow whose downstream half is in
\* the flow table emits nothing and leaves that half, with its waiting_for,
\* its waiting map and its finished flag, as it is.
C38_ConnectedOnce ==
    /\ [](\A id \in EmittedIds : Cardinality(EmittedAt(id, EvConnected)) <= 1)
    /\ [][(HandlesSynAck /\ packet'.key \in DOMAIN streams) =>
             /\ emitted' = emitted
             /\ packet'.key \in DOMAIN streams'
             /\ streams'[packet'.key] = streams[packet'.key]
         ]_vars

(***************************************************************************)
(* C39: a block of no bytes needs no further byte                          *)
(***************************************************************************)
\* the blocks that the bytes fed hold in full
BlocksFed == BlocksOf(BlockStream(fed))

\* the bytes fed end with the header of a block of no bytes
EndsWithEmptyBlock ==
    /\ BlocksFed # <<>>
    /\ BlocksLen(BlocksFed) = Len(BlockStream(fed))
    /\ BlocksFed[Len(BlocksFed)].body = <<>>

\* C39: when handle_data has returned, every byte it was given is consumed
\* and no block is left in Body with nothing still needed.  When the bytes
\* fed so far end with the header of a block of no bytes, that block is
\* complete: the analyzer is in Head after a body, a frame for every block
\* fed is rendered at the Blocks level, and when the block is the last of
\* its message, a frame for every message fed is rendered at the Messages
\* level, the analyzer is at a message boundary and check_incomplete
\* answers Ok.
C39_EmptyBlockCompletes ==
    returned = "None" =>
        /\ consumed = fed
        /\ ~(analyzer.kind = "Body" /\ analyzer.still_needed = 0)
        /\ EndsWithEmptyBlock =>
              LET last == BlocksFed[Len(BlocksFed)].last IN
              /\ analyzer = HeadState(last, TRUE)
              /\ buf = <<>> \/ (level = "Messages" /\ ~last)
              /\ level = "Blocks" =>
                    frames = [i \in DOMAIN BlocksFed |-> BlocksFed[i].body]
              /\ last =>
                    /\ level = "Messages" => frames = MessagesOf(BlocksFed, <<>>)
                    /\ frames # <<>>
                    /\ was_message_boundary(analyzer)
                    /\ check_incomplete(analyzer) = "Ok"

\* a block of one byte and the first byte of the next header came first;
\* the second byte of that header, of the last block of the message, which
\* has no bytes, came alone, and the call it came in rendered the message
C39_Witness ==
    /\ level = "Messages"
    /\ returned = "None"
    /\ fed = <<2, 0, 3, 1, 0>>
    /\ chunk = <<0>>
    /\ frames = <<<<3>>>>
    /\ analyzer = HeadState(TRUE, TRUE)
    /\ check_incomplete(analyzer) = "Ok"

(***************************************************************************)
(* C40: the events reach State::handle in an order it accepts              *)
(***************************************************************************)
\* State::new: no accumulators, and no panic yet
StateNew == [accs |-> {}, panicked |-> FALSE]

\* State::handle for an event of a connection: the ids that have
\* accumulators after it, and whether one of its panics was reached
state_handle(st, id, ev) ==
    IF st.panicked THEN st
    ELSE CASE ev.type = "Incoming" ->
                 IF id \in st.accs THEN [st EXCEPT !.panicked = TRUE]
                 ELSE [st EXCEPT !.accs = @ \cup {id}]
           [] ev.type \in {"End", "Aborted"} ->
                 IF id \notin st.accs THEN [st EXCEPT !.panicked = TRUE]
                 ELSE [st EXCEPT !.accs = @ \ {id}]
           [] ev.type \in {"Data", "ShutdownRead"} ->
                 IF id \notin st.accs THEN [st EXCEPT !.panicked = TRUE]
                 ELSE st
           [] OTHER -> st

\* State::handle called with the events of one connection, in order
RECURSIVE HandleAll(_, _, _)
HandleAll(st, id, events) ==
    IF events = <<>> THEN st
    ELSE HandleAll(state_handle(st, id, Head(events)), id, Tail(events))

\* State::handle called with the events of the tracker, in order
RECURSIVE HandleEmitted(_, _)
HandleEmitted(st, events) ==
    IF events = <<>> THEN st
    ELSE HandleEmitted(state_handle(st, Head(events).id, Head(events).ev), Tail(events))

\* the events of an id that a step of the proxy emits, in the order the
\* code emits them: those of a pass of handle_one, then what
\* handle_forward_event adds
Step(id) == AddedDir(id, "Downstream") \o AddedDir(id, "Upstream") \o Added(id)

\* the State after the events of an id that the proxy has emitted so far
StateOf(id) ==
    [accs |-> IF Occurrences(log[id], "Incoming") # {} /\ Terminals(id) = {}
              THEN {id} ELSE {},
     panicked |-> FALSE]

\* C40: State::handle reaches none of its panics on the events of the
\* tracker, taken in their order, nor on the events that a step of the
\* proxy adds for an id to those it has emitted before.  For every id
\* Incoming occurs at most once, and as the first event; End and Aborted
\* together occur at most once, and only after Incoming; an event with a
\* direction is emitted only for an id that has had its Incoming and not
\* its End or Aborted.
C40_NoPanic ==
    /\ [](/\ ~HandleEmitted(StateNew, emitted).panicked
          /\ \A id \in EmittedIds :
                /\ Cardinality(EmittedAt(id, EvEnd)) <= 1
                /\ Cardinality({i \in 1 .. Len(emitted) :
                                   emitted[i].id = id /\ emitted[i].ev = EvIncoming}) = 1
          /\ \A id \in Ids :
                /\ Occurrences(log[id], "Incoming") \subseteq {1}
                /\ Cardinality(Terminals(id)) <= 1
                /\ Terminals(id) # {} => Occurrences(log[id], "Incoming") = {1}
                /\ (dlog[id]["Upstream"] # <<>> \/ dlog[id]["Downstream"] # <<>>) =>
                      Occurrences(log[id], "Incoming") = {1})
    /\ [][\A id \in Ids :
             /\ ~HandleAll(StateOf(id), id, Step(id)).panicked
             /\ HandleAll(StateOf(id), id, Step(id)).accs = StateOf(id)'.accs
         ]_vars

\* the tracker has emitted End for the connection of the capture, after
\* Data and ShutdownRead of both directions, and State::handle has taken all
\* the events and has no accumulators left
C40_Witness ==
    /\ capture = Reordered
    /\ Len(emitted) >= 6
    /\ emitted[Len(emitted)] = Of(FirstId, EvEnd)
    /\ EmittedAt(FirstId, EvShutdownRead("Upstream")) # {}
    /\ EmittedAt(FirstId, EvShutdownRead("Downstream")) # {}
    /\ EmittedAt(FirstId, EvData("Upstream", <<65, 66>>)) # {}
    /\ HandleEmitted(StateNew, emitted) = StateNew

====
